---- MODULE Spec2Model ----
(***************************************************************************)
(* A model of the compiler: the type algebra (types.rs), the symbol table  *)
(* (scope.rs), the AST's type query (ast.rs), the recursive-descent /      *)
(* Pratt parser (parser.rs) and the tree-walking x86-64 code generator     *)
(* (generator.rs, x86_generator.rs).                                       *)
(*                                                                         *)
(* Strings of the program (token values, symbol names) are sequences of    *)
(* one-character strings, as the lexer's grapheme vector holds them.       *)
(* u64 values are four 16-bit limbs, least significant first.              *)
(***************************************************************************)
EXTENDS Integers, Sequences, FiniteSets, TLC

VARIABLES
    tokens,       \* Parser.tokens
    index,        \* Parser.index
    scope,        \* Parser.scope: the stack of Scopes, innermost last
    pstack,       \* the parser's call stack: one frame per open parse()/parse_block()/parse_if()/...
    entry_scope,  \* history: the scope stack as it was when each open parse_block() was entered
    ast,          \* the AstNode parse() returned, as <<node>>; <<>> before
    registers,    \* CodeGenerator.registers
    label_index,  \* CodeGenerator.label_index
    output,       \* the lines written to CodeGenerator.output
    gstack,       \* the generator's call stack: what is left to do of the open gen_node() calls
    phase,        \* where the compilation is
    err,          \* the message of the panic that ended it, "" if none
    call,         \* the arguments of the function under test (function-level specifications)
    result        \* the values it returned, in order

vars == <<tokens, index, scope, pstack, entry_scope, ast, registers, label_index,
          output, gstack, phase, err, call, result>>

(***************************************************************************)
(* types.rs                                                                *)
(***************************************************************************)
PrimitiveType ==
    {"Int8", "Int16", "Int32", "Int64", "UInt8", "UInt16", "UInt32", "UInt64",
     "Bool", "Unknown", "Void"}

get_size(t) ==
    CASE t \in {"Int8", "UInt8", "Bool"} -> 8
      [] t \in {"Int16", "UInt16"} -> 16
      [] t \in {"Int32", "UInt32"} -> 32
      [] t \in {"Int64", "UInt64"} -> 64
      [] OTHER -> 0

is_signed(t) == t \in {"Int8", "Int16", "Int32", "Int64"}

is_unsigned(t) == t \in {"UInt8", "UInt16", "UInt32", "UInt64"}

\* is_compatible_with that never takes the one-sided branch
is_compatible_with_two_sided(self, dest_type, one_sided) ==
    IF self = dest_type THEN TRUE
    ELSE IF self = "Bool" /\ dest_type # "Bool" THEN FALSE
    ELSE IF is_signed(self) /\ is_unsigned(dest_type) THEN FALSE
    ELSE IF self # "Bool" /\ dest_type = "Bool" THEN FALSE
    ELSE IF is_unsigned(self) /\ is_signed(dest_type) THEN FALSE
    ELSE TRUE

is_compatible_with(self, dest_type, one_sided) ==
    IF self = dest_type THEN TRUE
    ELSE IF self = "Bool" /\ dest_type # "Bool" THEN FALSE
    ELSE IF is_signed(self) /\ is_unsigned(dest_type) THEN FALSE
    ELSE IF ~one_sided
         THEN IF self # "Bool" /\ dest_type = "Bool" THEN FALSE
              ELSE IF is_unsigned(self) /\ is_signed(dest_type) THEN FALSE
              ELSE TRUE
         ELSE get_size(dest_type) > get_size(self)

\* impl FromStr for PrimitiveType: <<>> is Err(())
from_str(s) ==
    CASE s = <<"i", "8">> -> <<"Int8">>
      [] s = <<"i", "1", "6">> -> <<"Int16">>
      [] s = <<"i", "3", "2">> -> <<"Int32">>
      [] s = <<"i", "6", "4">> -> <<"Int64">>
      [] s = <<"u", "8">> -> <<"UInt8">>
      [] s = <<"u", "1", "6">> -> <<"UInt16">>
      [] s = <<"u", "3", "2">> -> <<"UInt32">>
      [] s = <<"u", "6", "4">> -> <<"UInt64">>
      [] s = <<"b", "o", "o", "l">> -> <<"Bool">>
      [] OTHER -> <<>>

(***************************************************************************)
(* u64: str::parse::<u64>() and the comparisons of parse_unary_expression  *)
(***************************************************************************)
LimbBase == 65536

U64Limbs == 4

DigitChars == <<"0", "1", "2", "3", "4", "5", "6", "7", "8", "9">>

IsDigit(c) == \E d \in 1..10 : DigitChars[d] = c

DigitVal(c) == (CHOOSE d \in 1..10 : DigitChars[d] = c) - 1

U64Zero == [i \in 1..U64Limbs |-> 0]

\* v * 10 + d, limb by limb: <<the limbs, the carry out of the top limb>>
RECURSIVE MulAdd(_, _, _)
MulAdd(v, i, carry) ==
    IF i > U64Limbs THEN <<v, carry>>
    ELSE LET x == v[i] * 10 + carry
         IN  MulAdd([v EXCEPT ![i] = x % LimbBase], i + 1, x \div LimbBase)

\* <<limbs>> is Ok(value), <<>> is Err (empty, not a digit, or more than u64::MAX)
RECURSIVE ParseDigits(_, _, _)
ParseDigits(s, k, acc) ==
    IF k > Len(s) THEN <<acc>>
    ELSE IF ~IsDigit(s[k]) THEN <<>>
    ELSE LET r == MulAdd(acc, 1, DigitVal(s[k]))
         IN  IF r[2] # 0 THEN <<>> ELSE ParseDigits(s, k + 1, r[1])

parse_u64(s) == IF Len(s) = 0 THEN <<>> ELSE ParseDigits(s, 1, U64Zero)

\* value >= 2u64.pow(bits) - 1, for bits in {8, 16, 32}
U64AtLeastPow2Minus1(v, bits) ==
    CASE bits = 8 -> v[1] >= 255 \/ v[2] > 0 \/ v[3] > 0 \/ v[4] > 0
      [] bits = 16 -> v[1] >= 65535 \/ v[2] > 0 \/ v[3] > 0 \/ v[4] > 0
      [] bits = 32 -> (v[1] >= 65535 /\ v[2] >= 65535) \/ v[3] > 0 \/ v[4] > 0

\* value > 2u64.pow(bits) - 1, for bits in {8, 16, 32}
U64GreaterThanPow2Minus1(v, bits) ==
    CASE bits = 8 -> v[1] > 255 \/ v[2] > 0 \/ v[3] > 0 \/ v[4] > 0
      [] bits = 16 -> v[2] > 0 \/ v[3] > 0 \/ v[4] > 0
      [] bits = 32 -> v[3] > 0 \/ v[4] > 0

(***************************************************************************)
(* lexer.rs: Token (line and col, which only error messages read, are left *)
(* out)                                                                    *)
(***************************************************************************)
Token(token_type, value) == [token_type |-> token_type, value |-> value]

(***************************************************************************)
(* scope.rs                                                                *)
(***************************************************************************)
\* the characters of a class: consume_while's argument f is the name of its class
LowerCase ==
    {"a", "b", "c", "d", "e", "f", "g", "h", "i", "j", "k", "l", "m", "n", "o", "p", "q",
     "r", "s", "t", "u", "v", "w", "x", "y", "z"}

UpperCase ==
    {"A", "B", "C", "D", "E", "F", "G", "H", "I", "J", "K", "L", "M", "N", "O", "P", "Q",
     "R", "S", "T", "U", "V", "W", "X", "Y", "Z"}

is_whitespace(c) == c = " " \/ c = "\t"

is_newline(c) == c = "\r\n" \/ c = "\n"

\* on ASCII input
is_alphabetic(c) == c \in LowerCase \cup UpperCase

is_numeric(c) == IsDigit(c)

InClass(class, c) ==
    CASE class = "whitespace" -> is_whitespace(c) \/ is_newline(c)
      [] class = "comment" -> ~is_newline(c)
      [] class = "numeric" -> is_numeric(c)
      [] class = "word" -> is_alphabetic(c) \/ is_numeric(c)

\* Lexer::consume_while from index i (the graphemes consumed so far): the index after it
RECURSIVE consume_while(_, _, _)
consume_while(data, i, class) ==
    IF i >= Len(data) THEN i
    ELSE IF ~InClass(class, data[i + 1]) THEN i
    ELSE consume_while(data, i + 1, class)

skip_whitespace(data, i) == consume_while(data, i, "whitespace")

LexerIndexError == "index out of bounds"

\* the loop `while self.peek(0) == "#"` of tokenize: [index, err]
RECURSIVE SkipComments(_, _)
SkipComments(data, i) ==
    IF i >= Len(data) THEN [index |-> i, err |-> LexerIndexError]
    ELSE IF data[i + 1] # "#" THEN [index |-> i, err |-> ""]
    ELSE LET j == consume_while(data, i, "comment")
         IN  IF j >= Len(data) THEN [index |-> j, err |-> LexerIndexError]
             ELSE SkipComments(data, skip_whitespace(data, j + 1))

keyword_to_tokentype(keyword) ==
    CASE keyword = <<"i", "f">> -> <<"If">>
      [] keyword = <<"e", "l", "s", "e">> -> <<"Else">>
      [] keyword = <<"v", "a", "r">> -> <<"Var">>
      [] keyword = <<"w", "h", "i", "l", "e">> -> <<"While">>
      [] keyword = <<"f", "n">> -> <<"Function">>
      [] from_str(keyword) # <<>> -> <<"Type">>
      [] OTHER -> <<>>

SingleChars ==
    [c \in {"+", "-", "*", "/", "(", ")", "{", "}", ";", ":", ","} |->
        CASE c = "+" -> "Plus" [] c = "-" -> "Minus" [] c = "*" -> "Star"
          [] c = "/" -> "Slash" [] c = "(" -> "LeftParen" [] c = ")" -> "RightParen"
          [] c = "{" -> "LeftBrace" [] c = "}" -> "RightBrace" [] c = ";" -> "SemiColon"
          [] c = ":" -> "Colon" [] c = "," -> "Comma"]

\* <<single_type, multiple_type>> of the characters a `=` may follow
PossibleMultichars ==
    [c \in {"!", "=", "<", ">"} |->
        CASE c = "!" -> <<"ExclamationMark", "NotEqualSign">>
          [] c = "=" -> <<"EqualSign", "DoubleEqualSign">>
          [] c = "<" -> <<"LessThan", "LessThanOrEqual">>
          [] c = ">" -> <<"GreaterThan", "GreaterThanOrEqual">>]

\* the match of tokenize on the character at index i: [index, token, err]
TokenizeOne(data, i) ==
    LET current_char == data[i + 1] IN
      CASE is_numeric(current_char) ->
             LET j == consume_while(data, i, "numeric")
             IN  [index |-> j, token |-> Token("IntLiteral", SubSeq(data, i + 1, j)), err |-> ""]
        [] is_alphabetic(current_char) ->
             LET j == consume_while(data, i, "word")
                 value == SubSeq(data, i + 1, j)
                 keyword == keyword_to_tokentype(value)
             IN  [index |-> j,
                  token |-> Token(IF keyword = <<>> THEN "Identifier" ELSE keyword[1], value),
                  err |-> ""]
        [] current_char \in DOMAIN SingleChars ->
             [index |-> i + 1, token |-> Token(SingleChars[current_char], <<current_char>>),
              err |-> ""]
        [] current_char \in DOMAIN PossibleMultichars ->
             IF i + 1 >= Len(data)
             THEN [index |-> i + 1, token |-> <<>>, err |-> LexerIndexError]
             ELSE IF data[i + 2] = "="
             THEN [index |-> i + 2,
                   token |-> Token(PossibleMultichars[current_char][2], <<current_char, "=">>),
                   err |-> ""]
             ELSE [index |-> i + 1,
                   token |-> Token(PossibleMultichars[current_char][1], <<current_char>>),
                   err |-> ""]
        [] OTHER -> [index |-> i, token |-> <<>>, err |-> "Unexpected character"]

\* Lexer::tokenize from the test of its outer loop: [tokens, err]
RECURSIVE TokenizeLoop(_, _, _)
TokenizeLoop(data, i, lexed) ==
    IF i >= Len(data) THEN [tokens |-> lexed, err |-> ""]
    ELSE LET i1 == skip_whitespace(data, i) IN
      IF i1 >= Len(data) THEN [tokens |-> lexed, err |-> ""]
      ELSE LET c == SkipComments(data, i1) IN
        IF c.err # "" THEN [tokens |-> lexed, err |-> c.err]
        ELSE LET t == TokenizeOne(data, c.index) IN
          IF t.err # "" THEN [tokens |-> lexed, err |-> t.err]
          ELSE TokenizeLoop(data, t.index, Append(lexed, t.token))

tokenize(data) == TokenizeLoop(data, 0, <<>>)

Symbol(symbol_type, primitive_type, parameter_types, name, offset) ==
    [symbol_type |-> symbol_type, primitive_type |-> primitive_type,
     parameter_types |-> parameter_types, name |-> name, offset |-> offset]

\* Scope::new
ScopeNew == [symbols |-> <<>>, last_offset |-> 0]

\* HashMap::insert
MapInsert(m, k, v) == [x \in (DOMAIN m) \cup {k} |-> IF x = k THEN v ELSE m[x]]

\* Scope::get: <<symbol>> is Some, <<>> is None
ScopeGet(s, name) == IF name \in DOMAIN s.symbols THEN <<s.symbols[name]>> ELSE <<>>

\* Scope::add with the offset counter left alone
ScopeAddNoAdvance(s, name, primitive_type, parameter_types, symbol_type) ==
    LET symbol == Symbol(symbol_type, primitive_type, parameter_types, name, s.last_offset)
    IN  [scope |-> [symbols |-> MapInsert(s.symbols, name, symbol),
                    last_offset |-> s.last_offset],
         symbol |-> symbol]

\* Scope::add: the scope after it, and the Symbol it returns
ScopeAdd(s, name, primitive_type, parameter_types, symbol_type) ==
    LET last_offset == s.last_offset + (get_size(primitive_type) \div 8)
        symbol == Symbol(symbol_type, primitive_type, parameter_types, name, last_offset)
    IN  [scope |-> [symbols |-> MapInsert(s.symbols, name, symbol),
                    last_offset |-> last_offset],
         symbol |-> symbol]

\* Scope::add_with_offset
ScopeAddWithOffset(s, name, primitive_type, parameter_types, symbol_type, offset) ==
    LET last_offset == s.last_offset + (get_size(primitive_type) \div 8)
        symbol == Symbol(symbol_type, primitive_type, parameter_types, name, offset)
    IN  [scope |-> [symbols |-> MapInsert(s.symbols, name, symbol),
                    last_offset |-> last_offset],
         symbol |-> symbol]

(***************************************************************************)
(* ast.rs (UnaryOperation, which the parser never builds, is left out)     *)
(***************************************************************************)
BinaryOperation(op, left, right) ==
    [kind |-> "BinaryOperation", op |-> op, left |-> left, right |-> right]

NumericLiteral(primitive_type, value) ==
    [kind |-> "NumericLiteral", primitive_type |-> primitive_type, value |-> value]

VariableDeclaration(symbol) == [kind |-> "VariableDeclaration", symbol |-> symbol]

Assignment(symbol, expression) ==
    [kind |-> "Assignment", symbol |-> symbol, expression |-> expression]

FunctionCall(name, params) == [kind |-> "FunctionCall", name |-> name, params |-> params]

Widen(primitive_type, node) ==
    [kind |-> "Widen", primitive_type |-> primitive_type, node |-> node]

Identifier(symbol) == [kind |-> "Identifier", symbol |-> symbol]

FunctionNode(symbol, code) == [kind |-> "Function", symbol |-> symbol, code |-> code]

\* else_code is <<>> (None) or <<block>> (Some)
IfNode(condition, code, else_code) ==
    [kind |-> "If", condition |-> condition, code |-> code, else_code |-> else_code]

WhileNode(condition, code) == [kind |-> "While", condition |-> condition, code |-> code]

Block(children) == [kind |-> "Block", children |-> children]

ComparisonOps ==
    {"Equals", "NotEquals", "LessThan", "LessThanOrEqual", "GreaterThan",
     "GreaterThanOrEqual"}

RECURSIVE get_primitive_type(_)
get_primitive_type(node) ==
    CASE node.kind = "BinaryOperation" ->
            IF node.op \in ComparisonOps THEN "Bool"
            ELSE LET left_type == get_primitive_type(node.left)
                     right_type == get_primitive_type(node.right)
                 IN  IF get_size(left_type) > get_size(right_type)
                     THEN left_type ELSE right_type
      [] node.kind = "NumericLiteral" -> node.primitive_type
      [] node.kind = "Widen" -> node.primitive_type
      [] node.kind = "Identifier" -> node.symbol.primitive_type
      [] OTHER -> "Unknown"

(***************************************************************************)
(* parser.rs.  A parser function is an operator from the parser's state    *)
(* p = [index, scope, err] (tokens never change) to the state after it,    *)
(* with the node it returns where it returns one.  A panic sets err, and   *)
(* every caller returns at once on a state whose err is set.               *)
(***************************************************************************)
MulDiv == 200

AddSubtract == 150

LessGreaterThan == 100

EqualsNotEquals == 50

Zero == 0

OperatorTokens ==
    {"Plus", "Minus", "Star", "Slash", "DoubleEqualSign", "NotEqualSign", "LessThan",
     "LessThanOrEqual", "GreaterThan", "GreaterThanOrEqual"}

\* defined on OperatorTokens; the caller panics on any other token type
token_type_to_operator(token_type) ==
    CASE token_type = "Plus" -> "Add"
      [] token_type = "Minus" -> "Subtract"
      [] token_type = "Star" -> "Multiply"
      [] token_type = "Slash" -> "Divide"
      [] token_type = "DoubleEqualSign" -> "Equals"
      [] token_type = "NotEqualSign" -> "NotEquals"
      [] token_type = "LessThan" -> "LessThan"
      [] token_type = "LessThanOrEqual" -> "LessThanOrEqual"
      [] token_type = "GreaterThan" -> "GreaterThan"
      [] token_type = "GreaterThanOrEqual" -> "GreaterThanOrEqual"

get_operator_precedence_add_first(operation_type) ==
    CASE operation_type \in {"Add", "Subtract"} -> MulDiv
      [] operation_type \in {"Multiply", "Divide"} -> AddSubtract
      [] operation_type \in {"Equals", "NotEquals"} -> EqualsNotEquals
      [] operation_type \in {"LessThan", "LessThanOrEqual", "GreaterThan",
                             "GreaterThanOrEqual"} -> LessGreaterThan

get_operator_precedence(operation_type) ==
    CASE operation_type \in {"Add", "Subtract"} -> AddSubtract
      [] operation_type \in {"Multiply", "Divide"} -> MulDiv
      [] operation_type \in {"Equals", "NotEquals"} -> EqualsNotEquals
      [] operation_type \in {"LessThan", "LessThanOrEqual", "GreaterThan",
                             "GreaterThanOrEqual"} -> LessGreaterThan

NoNode == [kind |-> "None"]

Fail(p, message) == [p EXCEPT !.err = message]

Failed(p) == p.err # ""

\* Parser::eof
Eof(p) == p.index >= Len(tokens)

\* whether peek(k) returns; it panics otherwise
PeekOk(p, k) == p.index + k < Len(tokens)

PeekError == "Reached end of tokenstream while peeking!"

\* Parser::peek, where PeekOk
Peek(p, k) == tokens[p.index + k + 1]

\* Parser::consume
Consume(p) ==
    IF Eof(p) THEN Fail(p, "Reached end of tokenstream while consuming!")
    ELSE [p EXCEPT !.index = p.index + 1]

\* Parser::assert_consume; the token it returns is Peek(p, 0)
assert_consume(p, token_type) ==
    IF Failed(p) THEN p
    ELSE IF ~PeekOk(p, 0) THEN Fail(p, PeekError)
    ELSE IF Peek(p, 0).token_type # token_type THEN Fail(p, "Assert consume failed")
    ELSE Consume(p)

\* Parser::find_scope_var over scopes 1..i of the stack: <<symbol>> or <<>>
RECURSIVE FindFrom(_, _, _)
FindFrom(stack, i, name) ==
    IF i = 0 THEN <<>>
    ELSE IF ScopeGet(stack[i], name) # <<>> THEN ScopeGet(stack[i], name)
    ELSE FindFrom(stack, i - 1, name)

find_scope_var(stack, name) == FindFrom(stack, Len(stack), name)

\* Parser::add_to_scope: the scope stack after it, and the Symbol
add_to_scope(stack, name, primitive_type, parameter_types, symbol_type) ==
    LET scope_count == Len(stack)
        r == ScopeAdd(stack[scope_count], name, primitive_type, parameter_types, symbol_type)
    IN  [scope |-> [stack EXCEPT ![scope_count] = r.scope], symbol |-> r.symbol]

\* Parser::add_to_scope_with_offset
add_to_scope_with_offset(stack, name, primitive_type, parameter_types, symbol_type, offset) ==
    LET scope_count == Len(stack)
        r == ScopeAddWithOffset(stack[scope_count], name, primitive_type, parameter_types,
                                symbol_type, offset)
    IN  [scope |-> [stack EXCEPT ![scope_count] = r.scope], symbol |-> r.symbol]

\* the type parse_unary_expression gives the literal `value`
LiteralType(value) ==
    IF U64GreaterThanPow2Minus1(value, 32) THEN "UInt64"
    ELSE IF U64GreaterThanPow2Minus1(value, 16) THEN "UInt32"
    ELSE IF U64GreaterThanPow2Minus1(value, 8) THEN "UInt16"
    ELSE "UInt8"

break_condition(token) ==
    token.token_type \in {"SemiColon", "RightParen", "Comma", "LeftBrace"}

\* the match of parse_expression without its Ordering::Less arm
WidenOperandsGreaterOnly(left, right) ==
    LET left_type == get_primitive_type(left)
        right_type == get_primitive_type(right)
    IN  IF get_size(left_type) > get_size(right_type)
        THEN <<left, Widen(left_type, right)>>
        ELSE <<left, right>>

\* the match of parse_expression that widens the narrower operand: <<left, right>>
WidenOperands(left, right) ==
    LET left_type == get_primitive_type(left)
        right_type == get_primitive_type(right)
    IN  IF get_size(left_type) > get_size(right_type)
        THEN <<left, Widen(left_type, right)>>
        ELSE IF get_size(left_type) < get_size(right_type)
        THEN <<Widen(right_type, left), right>>
        ELSE <<left, right>>

RECURSIVE parse_unary_expression(_)
RECURSIVE parse_expression(_, _)
RECURSIVE ParseExpressionLoop(_, _, _, _, _)

parse_unary_expression(p) ==
    IF Failed(p) THEN [p |-> p, node |-> NoNode]
    ELSE IF ~PeekOk(p, 0) THEN [p |-> Fail(p, PeekError), node |-> NoNode]
    ELSE LET current_token == Peek(p, 0) IN
      CASE current_token.token_type = "LeftParen" ->
             LET r == parse_expression(assert_consume(p, "LeftParen"), Zero)
             IN  [p |-> assert_consume(r.p, "RightParen"), node |-> r.node]
        [] current_token.token_type = "IntLiteral" ->
             LET value == parse_u64(current_token.value)
             IN  IF value = <<>>
                 THEN [p |-> Fail(p, "called Result::unwrap on an Err value"),
                       node |-> NoNode]
                 ELSE [p |-> assert_consume(p, "IntLiteral"),
                       node |-> NumericLiteral(LiteralType(value[1]), value[1])]
        [] current_token.token_type = "Identifier" ->
             LET scope_var == find_scope_var(p.scope, current_token.value)
             IN  IF scope_var = <<>>
                 THEN [p |-> Fail(p, "Unknown identifier"), node |-> NoNode]
                 ELSE [p |-> assert_consume(p, "Identifier"),
                       node |-> Identifier(scope_var[1])]
        [] OTHER ->
             [p |-> Fail(p, "parse_unary_expression expects IntLiteral, LeftParen or Identifier token type"),
              node |-> NoNode]

\* the rest of parse_expression from `let mut operator = self.peek(0)` and from
\* `operator = self.peek(0)` in the loop: left is the expression so far
NextOperator(p, left, precedence) ==
    IF Failed(p) THEN [p |-> p, node |-> NoNode]
    ELSE IF ~PeekOk(p, 0) THEN [p |-> Fail(p, PeekError), node |-> NoNode]
    ELSE LET operator == Peek(p, 0) IN
      IF break_condition(operator) THEN [p |-> p, node |-> left]
      ELSE IF operator.token_type \notin OperatorTokens
      THEN [p |-> Fail(p, "Trying to convert a non operator token type to a binary operator type"),
            node |-> NoNode]
      ELSE LET operator_type == token_type_to_operator(operator.token_type)
           IN  ParseExpressionLoop(p, left, operator_type,
                                   get_operator_precedence(operator_type), precedence)

\* the while loop of parse_expression, at its test
ParseExpressionLoop(p, left, operator_type, current_precedence, precedence) ==
    IF ~(current_precedence > precedence) THEN [p |-> p, node |-> left]
    ELSE LET r == parse_expression(Consume(p), current_precedence) IN
      IF Failed(r.p) THEN [p |-> r.p, node |-> NoNode]
      ELSE LET left_type == get_primitive_type(left)
               right_type == get_primitive_type(r.node)
           IN  IF ~is_compatible_with(left_type, right_type, FALSE)
               THEN [p |-> Fail(r.p, "Incompatible types in expression"), node |-> NoNode]
               ELSE LET w == WidenOperands(left, r.node)
                    IN  NextOperator(r.p, BinaryOperation(operator_type, w[1], w[2]),
                                     precedence)

parse_expression(p, precedence) ==
    LET u == parse_unary_expression(p)
    IN  IF Failed(u.p) THEN u ELSE NextOperator(u.p, u.node, precedence)

parse_variable_type(p) ==
    LET q == assert_consume(p, "Type")
    IN  IF Failed(q) THEN [p |-> q, type |-> "Unknown"]
        ELSE LET t == from_str(Peek(p, 0).value)
             IN  IF t = <<>> THEN [p |-> Fail(q, "Unknown primitive type"), type |-> "Unknown"]
                 ELSE [p |-> q, type |-> t[1]]

parse_variable_declaration(p) ==
    LET p1 == assert_consume(p, "Var")
        p2 == assert_consume(p1, "Identifier")
        t == parse_variable_type(assert_consume(p2, "Colon"))
        p3 == assert_consume(t.p, "SemiColon")
    IN  IF Failed(p3) THEN [p |-> p3, node |-> NoNode]
        ELSE LET a == add_to_scope(p3.scope, Peek(p1, 0).value, t.type, <<>>, "Variable")
             IN  [p |-> [p3 EXCEPT !.scope = a.scope], node |-> VariableDeclaration(a.symbol)]

parse_assignment(p) ==
    LET p1 == Consume(p)
        e == parse_expression(assert_consume(p1, "EqualSign"), Zero)
    IN  IF Failed(e.p) THEN [p |-> e.p, node |-> NoNode]
        ELSE LET p2 == Consume(e.p)
                 scope_var == find_scope_var(p2.scope, Peek(p, 0).value)
             IN  IF Failed(p2) THEN [p |-> p2, node |-> NoNode]
                 ELSE IF scope_var = <<>>
                 THEN [p |-> Fail(p2, "Unknown identifier"), node |-> NoNode]
                 ELSE LET expression ==
                              IF get_size(scope_var[1].primitive_type)
                                   > get_size(get_primitive_type(e.node))
                              THEN Widen(scope_var[1].primitive_type, e.node)
                              ELSE e.node
                      IN  [p |-> p2, node |-> Assignment(scope_var[1], expression)]

\* the loop of parse_functioncall, at its top: the state and the params
RECURSIVE FunctioncallLoop(_, _, _)
FunctioncallLoop(p, symbol, params) ==
    IF ~PeekOk(p, 0) THEN [p |-> Fail(p, PeekError), params |-> params]
    ELSE IF Peek(p, 0).token_type = "RightParen" THEN [p |-> p, params |-> params]
    ELSE LET e == parse_expression(p, Zero)
             param_index == Len(params)
         IN  IF Failed(e.p) THEN [p |-> e.p, params |-> params]
             ELSE IF param_index >= Len(symbol.parameter_types)
             THEN [p |-> Fail(e.p, "index out of bounds"), params |-> params]
             ELSE IF ~is_compatible_with(get_primitive_type(e.node),
                                         symbol.parameter_types[param_index + 1], TRUE)
             THEN [p |-> Fail(e.p, "Incompatible types in function call"), params |-> params]
             ELSE IF ~PeekOk(e.p, 0)
             THEN [p |-> Fail(e.p, PeekError), params |-> params]
             ELSE IF Peek(e.p, 0).token_type = "RightParen"
             THEN [p |-> e.p, params |-> Append(params, e.node)]
             ELSE LET q == assert_consume(e.p, "Comma")
                  IN  IF Failed(q) THEN [p |-> q, params |-> params]
                      ELSE FunctioncallLoop(q, symbol, Append(params, e.node))

parse_functioncall(p) ==
    LET p1 == assert_consume(assert_consume(p, "Identifier"), "LeftParen")
    IN  IF Failed(p1) THEN [p |-> p1, node |-> NoNode]
        ELSE LET function_name == Peek(p, 0).value
                 symbol == find_scope_var(p1.scope, function_name)
             IN  IF symbol = <<>> THEN [p |-> Fail(p1, "Unknown function"), node |-> NoNode]
                 ELSE LET l == FunctioncallLoop(p1, symbol[1], <<>>)
                          p2 == assert_consume(assert_consume(l.p, "RightParen"), "SemiColon")
                      IN  [p |-> p2, node |-> FunctionCall(function_name, l.params)]

\* the loop of parse_parameter_list, at its top
RECURSIVE ParameterListLoop(_, _)
ParameterListLoop(p, parameter_types) ==
    IF ~PeekOk(p, 0) THEN [p |-> Fail(p, PeekError), parameter_types |-> parameter_types]
    ELSE IF Peek(p, 0).token_type = "RightParen"
    THEN [p |-> p, parameter_types |-> parameter_types]
    ELSE LET p1 == assert_consume(p, "Identifier")
             t == parse_variable_type(assert_consume(p1, "Colon"))
         IN  IF Failed(t.p) THEN [p |-> t.p, parameter_types |-> parameter_types]
             ELSE LET a == add_to_scope_with_offset(t.p.scope, Peek(p, 0).value, t.type, <<>>,
                                                    "FunctionParameter", Len(parameter_types))
                      p2 == [t.p EXCEPT !.scope = a.scope]
                      types == Append(parameter_types, t.type)
                  IN  IF ~PeekOk(p2, 0)
                      THEN [p |-> Fail(p2, PeekError), parameter_types |-> types]
                      ELSE IF Peek(p2, 0).token_type = "RightParen"
                      THEN [p |-> p2, parameter_types |-> types]
                      ELSE LET q == assert_consume(p2, "Comma")
                           IN  IF Failed(q) THEN [p |-> q, parameter_types |-> types]
                               ELSE ParameterListLoop(q, types)

parse_parameter_list(p) == ParameterListLoop(p, <<>>)

(***************************************************************************)
(* The statement level of the parser, one step per statement.  A           *)
(* configuration c = [p, stack, entry] is the parser's state, its call     *)
(* stack and the history of scope stacks at block entry.  The frames:      *)
(*   parse     parse(), in its loop, with the nodes so far                 *)
(*   block     parse_block(), in its loop, with the children so far        *)
(*   if_then   parse_if() waiting for the block of `code`                  *)
(*   if_else   parse_if() waiting for the block of else_statement          *)
(*   while     parse_while() waiting for its block                         *)
(*   function  parse_function() waiting for its block                      *)
(***************************************************************************)
Top(stack) == stack[Len(stack)]

Pop(stack) == SubSeq(stack, 1, Len(stack) - 1)

\* EnterBlock with a second self.scope.push(Scope::new())
EnterBlockTwice(c) ==
    LET pushed == [c.p EXCEPT !.scope = Append(Append(c.p.scope, ScopeNew), ScopeNew)]
        q == assert_consume(pushed, "LeftBrace")
    IN  [p |-> q,
         stack |-> Append(c.stack, [kind |-> "block", children |-> <<>>]),
         entry |-> Append(c.entry, c.p.scope)]

\* parse_block up to its loop: self.scope.push(Scope::new()), the `{`
EnterBlock(c) ==
    LET pushed == [c.p EXCEPT !.scope = Append(c.p.scope, ScopeNew)]
        q == assert_consume(pushed, "LeftBrace")
    IN  [p |-> q,
         stack |-> Append(c.stack, [kind |-> "block", children |-> <<>>]),
         entry |-> Append(c.entry, c.p.scope)]

\* the return of `node` to the function of the top frame, and on to its callers
\* until one has another statement to parse
RECURSIVE Deliver(_, _)
Deliver(c, node) ==
    IF Failed(c.p) THEN c
    ELSE LET top == Top(c.stack) IN
      CASE top.kind \in {"parse", "block"} ->
             [c EXCEPT !.stack[Len(c.stack)].children = Append(top.children, node)]
        [] top.kind = "while" ->
             Deliver([c EXCEPT !.stack = Pop(c.stack)], WhileNode(top.condition, node))
        [] top.kind = "function" ->
             LET a == add_to_scope(c.p.scope, top.function_name, "Void",
                                   top.parameter_types, "Function")
             IN  Deliver([c EXCEPT !.stack = Pop(c.stack), !.p.scope = a.scope],
                         FunctionNode(a.symbol, node))
        [] top.kind = "if_then" ->
             IF ~PeekOk(c.p, 0) THEN [c EXCEPT !.p = Fail(c.p, PeekError)]
             ELSE IF Peek(c.p, 0).token_type = "Else"
             THEN EnterBlock([c EXCEPT
                     !.p = assert_consume(c.p, "Else"),
                     !.stack = Append(Pop(c.stack),
                                      [kind |-> "if_else", condition |-> top.condition,
                                       code |-> node])])
             ELSE Deliver([c EXCEPT !.stack = Pop(c.stack)],
                          IfNode(top.condition, node, <<>>))
        [] top.kind = "if_else" ->
             Deliver([c EXCEPT !.stack = Pop(c.stack)],
                     IfNode(top.condition, top.code, <<node>>))

\* ExitBlock without the self.scope.pop()
ExitBlockNoPop(c) ==
    LET q == assert_consume(c.p, "RightBrace")
    IN  Deliver([p |-> q, stack |-> Pop(c.stack), entry |-> Pop(c.entry)],
                Block(Top(c.stack).children))

\* parse_block from the `}`: the scope is popped, the Block returned
ExitBlock(c) ==
    LET q == assert_consume(c.p, "RightBrace")
        popped == [q EXCEPT !.scope = Pop(q.scope)]
    IN  Deliver([p |-> popped, stack |-> Pop(c.stack), entry |-> Pop(c.entry)],
                Block(Top(c.stack).children))

ConditionHeadUnchecked(c, keyword, frame_kind, message) ==
    LET e == parse_expression(assert_consume(c.p, keyword), Zero)
    IN  IF Failed(e.p) THEN [c EXCEPT !.p = e.p]
        ELSE EnterBlock([c EXCEPT
                 !.p = e.p,
                 !.stack = Append(c.stack, [kind |-> frame_kind, condition |-> e.node])])

\* parse_if and parse_while up to their block
ConditionHead(c, keyword, frame_kind, message) ==
    LET e == parse_expression(assert_consume(c.p, keyword), Zero)
    IN  IF Failed(e.p) THEN [c EXCEPT !.p = e.p]
        ELSE IF get_primitive_type(e.node) # "Bool"
        THEN [c EXCEPT !.p = Fail(e.p, message)]
        ELSE EnterBlock([c EXCEPT
                 !.p = e.p,
                 !.stack = Append(c.stack, [kind |-> frame_kind, condition |-> e.node])])

\* parse_function up to its block
FunctionHead(c) ==
    LET p1 == assert_consume(c.p, "Function")
        p2 == assert_consume(assert_consume(p1, "Identifier"), "LeftParen")
    IN  IF Failed(p2) THEN [c EXCEPT !.p = p2]
        ELSE LET l == parse_parameter_list(p2)
                 p3 == assert_consume(l.p, "RightParen")
             IN  IF Failed(p3) THEN [c EXCEPT !.p = p3]
                 ELSE EnterBlock([c EXCEPT
                          !.p = p3,
                          !.stack = Append(c.stack,
                                           [kind |-> "function",
                                            function_name |-> Peek(p1, 0).value,
                                            parameter_types |-> l.parameter_types])])

(***************************************************************************)
(* Parser::new and setup_libc                                              *)
(***************************************************************************)
NamePrintbool == <<"p", "r", "i", "n", "t", "b", "o", "o", "l">>

NamePrint8 == <<"p", "r", "i", "n", "t", "8">>

NamePrint16 == <<"p", "r", "i", "n", "t", "1", "6">>

NamePrint32 == <<"p", "r", "i", "n", "t", "3", "2">>

NamePrint64 == <<"p", "r", "i", "n", "t", "6", "4">>

NamePrintsum == <<"p", "r", "i", "n", "t", "s", "u", "m">>

setup_libc(stack) ==
    LET s1 == add_to_scope(stack, NamePrintbool, "Void", <<"Bool">>, "Function").scope
        s2 == add_to_scope(s1, NamePrint8, "Void", <<"UInt8">>, "Function").scope
        s3 == add_to_scope(s2, NamePrint16, "Void", <<"UInt16">>, "Function").scope
        s4 == add_to_scope(s3, NamePrint32, "Void", <<"UInt32">>, "Function").scope
        s5 == add_to_scope(s4, NamePrint64, "Void", <<"UInt64">>, "Function").scope
    IN  add_to_scope(s5, NamePrintsum, "Void", <<"UInt32", "UInt32">>, "Function").scope

\* the scope stack of Parser::new(tokens)
ParserNewScope == setup_libc(<<ScopeNew>>)

(***************************************************************************)
(* The programs the compiler is run on, as the lexer's tokens              *)
(***************************************************************************)
MaxStmts == 3

MaxBody == 2

MaxDepth == 3

SeqsUpTo(S, n) == UNION {[1..k -> S] : k \in 0..n}

RECURSIVE Flatten(_)
Flatten(ss) == IF Len(ss) = 0 THEN <<>> ELSE Head(ss) \o Flatten(Tail(ss))

TVar == Token("Var", <<"v", "a", "r">>)

TIf == Token("If", <<"i", "f">>)

TElse == Token("Else", <<"e", "l", "s", "e">>)

TWhile == Token("While", <<"w", "h", "i", "l", "e">>)

TFn == Token("Function", <<"f", "n">>)

TId(name) == Token("Identifier", name)

TType(name) == Token("Type", name)

TInt(digits) == Token("IntLiteral", digits)

TP(token_type, c) == Token(token_type, <<c>>)

TSemi == TP("SemiColon", ";")

TColon == TP("Colon", ":")

TComma == TP("Comma", ",")

TLParen == TP("LeftParen", "(")

TRParen == TP("RightParen", ")")

TLBrace == TP("LeftBrace", "{")

TRBrace == TP("RightBrace", "}")

TEq == TP("EqualSign", "=")

TPlus == TP("Plus", "+")

TEqEq == Token("DoubleEqualSign", <<"=", "=">>)

TLess == TP("LessThan", "<")

SrcVar(name, type) == <<TVar, TId(name), TColon, TType(type), TSemi>>

SrcAssign(name, expression) == <<TId(name), TEq>> \o expression \o <<TSemi>>

SrcCall1(name, argument) == <<TId(name), TLParen>> \o argument \o <<TRParen, TSemi>>

SrcCall0(name) == <<TId(name), TLParen, TRParen, TSemi>>

X == <<"x">>

Y == <<"y">>

StmtVarXu8 == SrcVar(X, <<"u", "8">>)

StmtVarXu64 == SrcVar(X, <<"u", "6", "4">>)

StmtVarYi8 == SrcVar(Y, <<"i", "8">>)

StmtIncrX == SrcAssign(X, <<TId(X), TPlus, TInt(<<"1">>)>>)

StmtDoubleY == SrcAssign(Y, <<TId(Y), TPlus, TId(Y)>>)

StmtPrint8X == SrcCall1(NamePrint8, <<TId(X)>>)

StmtCallFoo == SrcCall0(<<"f", "o", "o">>)

StmtStray == <<TId(X), TSemi>>

SimpleStmts ==
    {StmtVarXu8, StmtVarXu64, StmtVarYi8, StmtIncrX, StmtDoubleY, StmtPrint8X,
     StmtCallFoo, StmtStray}

\* straight-line programs
FlatPrograms == {Flatten(ss) : ss \in SeqsUpTo(SimpleStmts, MaxStmts)}

CondEq == <<TId(X), TEqEq, TInt(<<"1">>)>>

CondLess == <<TId(X), TLess, TInt(<<"1">>)>>

SrcBlock(body) == <<TLBrace>> \o body \o <<TRBrace>>

SrcIf(condition, body) == <<TIf>> \o condition \o SrcBlock(body)

SrcIfElse(condition, body, else_body) ==
    SrcIf(condition, body) \o <<TElse>> \o SrcBlock(else_body)

SrcWhile(condition, body) == <<TWhile>> \o condition \o SrcBlock(body)

SrcFn(name, parameter, type, body) ==
    <<TFn, TId(name), TLParen, TId(parameter), TColon, TType(type), TRParen>>
        \o SrcBlock(body)

Wrapped(body) ==
    {SrcBlock(body), SrcIf(CondEq, body), SrcIfElse(CondEq, body, body),
     SrcWhile(CondLess, body), SrcFn(<<"f">>, <<"p">>, <<"u", "3", "2">>, body)}

BodyStmts == {StmtVarXu64, StmtIncrX, StmtPrint8X}

\* a declaration, one compound statement, one more statement
NestedPrograms ==
    {d \o w \o t :
        d \in {StmtVarXu8, StmtVarXu64},
        w \in UNION {Wrapped(Flatten(ss)) : ss \in SeqsUpTo(BodyStmts, MaxBody)},
        t \in {StmtIncrX, StmtPrint8X}}

\* if and while nested `depth` deep around an assignment, an assignment after each
RECURSIVE Nest(_)
Nest(depth) ==
    IF depth = 0 THEN {StmtIncrX}
    ELSE {w \o StmtIncrX :
            w \in UNION {{SrcIf(CondEq, b), SrcWhile(CondLess, b)} : b \in Nest(depth - 1)}}

DeepPrograms == {StmtVarXu8 \o b : b \in UNION {Nest(d) : d \in 1..MaxDepth}}

Programs == FlatPrograms \cup NestedPrograms \cup DeepPrograms

(***************************************************************************)
(* generator.rs / x86_generator.rs.  A generator function is an operator   *)
(* from the generator's state g = [registers, label_index, output, err]    *)
(* to the state after it, with the Register it returns where it returns    *)
(* one.  A line of the output is [op, args]: the mnemonic and the          *)
(* operands, an operand being <<"reg", size index, slot>> (REGISTERS),     *)
(* <<"param", size index, ordinal>> (PARAM_REGISTERS), <<"eax", size       *)
(* index>> (EAX), <<"imm", n>>, <<"imm64", limbs>>, <<"mem", offset>>      *)
(* (-offset(%rbp)), <<"rsp">>, <<"rbp">>, <<"label", n>> or                *)
(* <<"name", chars>>.                                                      *)
(***************************************************************************)
NumRegisters == 4

NumParamRegisters == 2

NumSizes == 4

MOV_INSTR == <<"movb", "movw", "movl", "movq">>

ADD_INSTR == <<"addb", "addw", "addl", "addq">>

SUB_INSTR == <<"subb", "subw", "subl", "subq">>

MUL_INSTR == <<"mulb", "mulw", "mull", "mulq">>

DIV_INSTR == <<"divb", "divw", "divl", "divq">>

CMP_INSTR == <<"cmpb", "cmpw", "cmpl", "cmpq">>

AND_INSTR == <<"andb", "andw", "andl", "andq">>

Line(op, args) == [op |-> op, args |-> args]

Reg(size_index, reg) == <<"reg", size_index, reg.index>>

\* CodeGenerator::new
GeneratorNew ==
    [registers |-> [i \in 1..NumRegisters |-> <<>>], label_index |-> 0,
     output |-> <<>>, err |-> ""]

GFail(g, message) == [g EXCEPT !.err = message]

\* write: one line more in the output
Write(g, line) == [g EXCEPT !.output = Append(g.output, line)]

\* whether size_to_instruction_index(size) returns; it panics otherwise
SizeOk(size) == size \in {8, 16, 32, 64}

SizeError == "Trying to get instruction index for unknown primitive size!"

size_to_instruction_index(size) ==
    CASE size = 8 -> 0
      [] size = 16 -> 1
      [] size = 32 -> 2
      [] size = 64 -> 3

\* the Register of a call that panicked (never read)
NoReg == [size |-> 0, index |-> 0]

\* get_register that hands out the first slot whether or not it is in use
get_register_first(g, size) ==
    LET register == [size |-> size, index |-> 0]
    IN  [g |-> [g EXCEPT !.registers[1] = <<register>>], reg |-> register]

\* get_register: first fit
get_register(g, size) ==
    IF \A i \in 1..NumRegisters : g.registers[i] # <<>>
    THEN [g |-> GFail(g, "Out of registers!"), reg |-> NoReg]
    ELSE LET i == CHOOSE j \in 1..NumRegisters :
                      /\ g.registers[j] = <<>>
                      /\ \A k \in 1..(j - 1) : g.registers[k] # <<>>
             register == [size |-> size, index |-> i - 1]
         IN  [g |-> [g EXCEPT !.registers[i] = <<register>>], reg |-> register]

free_register(g, reg) ==
    IF g.registers[reg.index + 1] = <<>>
    THEN GFail(g, "Trying to free a register which is already free!")
    ELSE [g EXCEPT !.registers[reg.index + 1] = <<>>]

\* get_label without the increment
get_label_same(g) == g

\* get_label: the state after it; the label returned is g.label_index
get_label(g) == [g EXCEPT !.label_index = g.label_index + 1]

\* gen_assignment_instr
gen_assignment_instr(g, symbol, register, size_index) ==
    Write(Write(g, Line("subq", <<<<"imm", symbol.offset>>, <<"rsp">>>>)),
          Line(MOV_INSTR[size_index + 1],
               <<Reg(size_index, register), <<"mem", symbol.offset>>>>))

\* gen_comparison_instr: the state after it; the Register returned is right_reg
gen_comparison_instr(g, left_reg, right_reg, size_index, comparison_type) ==
    LET g1 == Write(g, Line(CMP_INSTR[size_index + 1],
                            <<Reg(size_index, right_reg), Reg(size_index, left_reg)>>))
        g2 == Write(g1, Line(comparison_type, <<Reg(0, right_reg)>>))
        g3 == Write(g2, Line(AND_INSTR[size_index + 1],
                             <<<<"imm", 255>>, Reg(size_index, right_reg)>>))
    IN  free_register(g3, left_reg)

\* gen_add_instr with the operands of the instruction exchanged
GenAddSubIntoRight(g, instr, left_reg, right_reg, size_index) ==
    free_register(
        Write(g, Line(instr[size_index + 1],
                      <<Reg(size_index, left_reg), Reg(size_index, right_reg)>>)),
        right_reg)

\* gen_add_instr and gen_subtract_instr: the Register returned is left_reg
GenAddSub(g, instr, left_reg, right_reg, size_index) ==
    free_register(
        Write(g, Line(instr[size_index + 1],
                      <<Reg(size_index, right_reg), Reg(size_index, left_reg)>>)),
        right_reg)

gen_multiply_instr(g, left_reg, right_reg, size_index) ==
    LET g1 == Write(g, Line(MOV_INSTR[size_index + 1],
                            <<Reg(size_index, right_reg), <<"eax", size_index>>>>))
        g2 == Write(g1, Line(MUL_INSTR[size_index + 1], <<Reg(size_index, left_reg)>>))
        g3 == Write(g2, Line(MOV_INSTR[size_index + 1],
                             <<<<"eax", size_index>>, Reg(size_index, left_reg)>>))
    IN  free_register(g3, right_reg)

gen_divide_instr(g, left_reg, right_reg, size_index) ==
    LET g1 == Write(g, Line(MOV_INSTR[size_index + 1],
                            <<Reg(size_index, left_reg), <<"eax", size_index>>>>))
        g2 == Write(g1, Line("cltd", <<>>))
        g3 == Write(g2, Line(DIV_INSTR[size_index + 1], <<Reg(size_index, right_reg)>>))
        g4 == Write(g3, Line(MOV_INSTR[size_index + 1],
                             <<<<"eax", size_index>>, Reg(size_index, left_reg)>>))
    IN  free_register(g4, right_reg)

ComparisonInstr(op) ==
    CASE op = "Equals" -> "sete"
      [] op = "NotEquals" -> "setne"
      [] op = "LessThan" -> "setl"
      [] op = "LessThanOrEqual" -> "setle"
      [] op = "GreaterThan" -> "setg"
      [] op = "GreaterThanOrEqual" -> "setge"

gen_numeric_literal_instr(g, primitive_type, primitive_value) ==
    LET r == get_register(g, get_size(primitive_type))
    IN  IF r.g.err # "" THEN r
        ELSE [g |-> Write(r.g, Line(MOV_INSTR[4],
                                    <<<<"imm64", primitive_value>>, Reg(3, r.reg)>>)),
              reg |-> r.reg]

\* gen_widen_instr
gen_widen_instr(g, register, primitive_type, src_index, dest_index) ==
    LET r == get_register(g, get_size(primitive_type))
    IN  IF r.g.err # "" THEN r
        ELSE [g |-> free_register(
                        Write(r.g, Line("movzx", <<Reg(src_index, register),
                                                   Reg(dest_index, r.reg)>>)),
                        register),
              reg |-> r.reg]

gen_identifier_instr(g, symbol) ==
    LET size == get_size(symbol.primitive_type)
        r == get_register(g, size)
    IN  IF r.g.err # "" THEN r
        ELSE IF ~SizeOk(size) THEN [g |-> GFail(r.g, SizeError), reg |-> r.reg]
        ELSE LET i == size_to_instruction_index(size) IN
          CASE symbol.symbol_type = "Variable" ->
                 [g |-> Write(r.g, Line(MOV_INSTR[i + 1],
                                        <<<<"mem", symbol.offset>>, Reg(i, r.reg)>>)),
                  reg |-> r.reg]
            [] symbol.symbol_type = "FunctionParameter" ->
                 IF symbol.offset >= NumParamRegisters
                 THEN [g |-> GFail(r.g, "index out of bounds"), reg |-> r.reg]
                 ELSE [g |-> Write(r.g, Line(MOV_INSTR[i + 1],
                                             <<<<"param", i, symbol.offset>>,
                                               Reg(i, r.reg)>>)),
                       reg |-> r.reg]
            [] OTHER ->
                 [g |-> GFail(r.g, "Trying to generate from function symbol ast node"),
                  reg |-> r.reg]

AssertSameSize ==
    "assertion failed: left.get_primitive_type().get_size() == right.get_primitive_type().get_size()"

AssertLeftNotSigned == "assertion failed: !left.get_primitive_type().is_signed()"

AssertRightNotSigned == "assertion failed: !right.get_primitive_type().is_signed()"

AssertWidenUnsigned == "assertion failed: primitive_type.is_unsigned()"

RECURSIVE gen_expression(_, _)
gen_expression(g, expression) ==
    IF g.err # "" THEN [g |-> g, reg |-> NoReg]
    ELSE CASE expression.kind = "BinaryOperation" ->
        LET left_type == get_primitive_type(expression.left)
            right_type == get_primitive_type(expression.right)
        IN  IF get_size(left_type) # get_size(right_type)
            THEN [g |-> GFail(g, AssertSameSize), reg |-> NoReg]
            ELSE IF is_signed(left_type)
            THEN [g |-> GFail(g, AssertLeftNotSigned), reg |-> NoReg]
            ELSE IF is_signed(right_type)
            THEN [g |-> GFail(g, AssertRightNotSigned), reg |-> NoReg]
            ELSE LET l == gen_expression(g, expression.left)
                     r == gen_expression(l.g, expression.right)
                 IN  IF r.g.err # "" THEN r
                     ELSE IF ~SizeOk(get_size(left_type))
                     THEN [g |-> GFail(r.g, SizeError), reg |-> r.reg]
                     ELSE LET i == size_to_instruction_index(get_size(left_type))
                              op == expression.op
                          IN  CASE op = "Add" ->
                                     [g |-> GenAddSub(r.g, ADD_INSTR, l.reg, r.reg, i),
                                      reg |-> l.reg]
                                [] op = "Subtract" ->
                                     [g |-> GenAddSub(r.g, SUB_INSTR, l.reg, r.reg, i),
                                      reg |-> l.reg]
                                [] op = "Multiply" ->
                                     [g |-> gen_multiply_instr(r.g, l.reg, r.reg, i),
                                      reg |-> l.reg]
                                [] op = "Divide" ->
                                     [g |-> gen_divide_instr(r.g, l.reg, r.reg, i),
                                      reg |-> l.reg]
                                [] OTHER ->
                                     [g |-> gen_comparison_instr(r.g, l.reg, r.reg, i,
                                                                 ComparisonInstr(op)),
                                      reg |-> r.reg]
      [] expression.kind = "NumericLiteral" ->
        gen_numeric_literal_instr(g, expression.primitive_type, expression.value)
      [] expression.kind = "Widen" ->
        LET r == gen_expression(g, expression.node)
            src_size == get_size(get_primitive_type(expression.node))
            dst_size == get_size(expression.primitive_type)
        IN  IF r.g.err # "" THEN r
            ELSE IF ~is_unsigned(expression.primitive_type)
            THEN [g |-> GFail(r.g, AssertWidenUnsigned), reg |-> r.reg]
            ELSE IF ~SizeOk(src_size) \/ ~SizeOk(dst_size)
            THEN [g |-> GFail(r.g, SizeError), reg |-> r.reg]
            ELSE gen_widen_instr(r.g, r.reg, expression.primitive_type,
                                 size_to_instruction_index(src_size),
                                 size_to_instruction_index(dst_size))
      [] expression.kind = "Identifier" ->
        gen_identifier_instr(g, expression.symbol)
      [] OTHER ->
        [g |-> GFail(g, "unsupported astnode in gen_expression"), reg |-> NoReg]

\* gen_assignment
gen_assignment(g, variable, expression) ==
    LET r == gen_expression(g, expression)
        expression_type == get_primitive_type(expression)
        size == get_size(variable.primitive_type)
    IN  IF r.g.err # "" THEN r.g
        ELSE IF ~is_compatible_with(expression_type, variable.primitive_type, TRUE)
        THEN GFail(r.g, "Incompatible types in assignment")
        ELSE IF ~SizeOk(size) THEN GFail(r.g, SizeError)
        ELSE free_register(
                 gen_assignment_instr(r.g, variable, r.reg, size_to_instruction_index(size)),
                 r.reg)

\* the first loop of gen_functioncall_instr over a PARAM_REGISTERS row without end
RECURSIVE FunctioncallParamsUnbounded(_, _, _, _)
FunctioncallParamsUnbounded(g, params, k, allocated_regs) ==
    IF g.err # "" \/ k > Len(params) THEN [g |-> g, regs |-> allocated_regs]
    ELSE LET size == get_size(get_primitive_type(params[k])) IN
      IF ~SizeOk(size) THEN [g |-> GFail(g, SizeError), regs |-> allocated_regs]
      ELSE LET instr_index == size_to_instruction_index(size)
               e == gen_expression(g, params[k])
           IN  IF e.g.err # "" THEN [g |-> e.g, regs |-> allocated_regs]
               ELSE LET g1 == Write(e.g, Line("xor", <<<<"param", 3, k - 1>>,
                                                       <<"param", 3, k - 1>>>>))
                        g2 == Write(g1, Line(MOV_INSTR[instr_index + 1],
                                             <<Reg(instr_index, e.reg),
                                               <<"param", instr_index, k - 1>>>>))
                    IN  FunctioncallParamsUnbounded(g2, params, k + 1,
                                                    Append(allocated_regs, e.reg))

\* the first loop of gen_functioncall_instr, from params[k]: the state and allocated_regs
RECURSIVE FunctioncallParams(_, _, _, _)
FunctioncallParams(g, params, k, allocated_regs) ==
    IF g.err # "" \/ k > Len(params) THEN [g |-> g, regs |-> allocated_regs]
    ELSE LET size == get_size(get_primitive_type(params[k])) IN
      IF ~SizeOk(size) THEN [g |-> GFail(g, SizeError), regs |-> allocated_regs]
      ELSE LET instr_index == size_to_instruction_index(size)
               e == gen_expression(g, params[k])
           IN  IF e.g.err # "" THEN [g |-> e.g, regs |-> allocated_regs]
               ELSE IF k - 1 >= NumParamRegisters
               THEN [g |-> GFail(e.g, "index out of bounds"), regs |-> allocated_regs]
               ELSE LET g1 == Write(e.g, Line("xor", <<<<"param", 3, k - 1>>,
                                                       <<"param", 3, k - 1>>>>))
                        g2 == Write(g1, Line(MOV_INSTR[instr_index + 1],
                                             <<Reg(instr_index, e.reg),
                                               <<"param", instr_index, k - 1>>>>))
                    IN  FunctioncallParams(g2, params, k + 1, Append(allocated_regs, e.reg))

\* the second loop of gen_functioncall_instr
RECURSIVE FreeAll(_, _, _)
FreeAll(g, regs, k) ==
    IF g.err # "" \/ k > Len(regs) THEN g
    ELSE FreeAll(free_register(g, regs[k]), regs, k + 1)

\* gen_functioncall_instr with the call written before the arguments
gen_functioncall_instr_call_first(g, name, params) ==
    IF ~(Len(params) <= NumSizes)
    THEN GFail(g, "assertion failed: params.len() <= PARAM_REGISTERS.len()")
    ELSE LET l == FunctioncallParams(Write(g, Line("call", <<<<"name", name>>>>)),
                                     params, 1, <<>>)
         IN  FreeAll(l.g, l.regs, 1)

gen_functioncall_instr(g, name, params) ==
    IF ~(Len(params) <= NumSizes)
    THEN GFail(g, "assertion failed: params.len() <= PARAM_REGISTERS.len()")
    ELSE LET l == FunctioncallParams(g, params, 1, <<>>)
             f == FreeAll(l.g, l.regs, 1)
         IN  IF f.err # "" THEN f
             ELSE Write(f, Line("call", <<<<"name", name>>>>))

(***************************************************************************)
(* The statement level of the generator, one step per call of gen_node     *)
(* and one per return into gen_if_instr, gen_while_instr and               *)
(* gen_function_instr.  gstack holds what the open calls have left to do,  *)
(* the next thing last:                                                    *)
(*   node          gen_node(node) is to be called                          *)
(*   if_code       gen_if_instr, after gen_node(code)                      *)
(*   if_end        gen_if_instr, after gen_node(else_code)                 *)
(*   while_end     gen_while_instr, after gen_node(code)                   *)
(*   function_end  gen_function_instr, after gen_node(code)                *)
(*   post_check    gen, after gen_node(node)                               *)
(***************************************************************************)
TodoNode(node) == [kind |-> "node", node |-> node]

\* children, as calls of gen_node to make, the first child last
RECURSIVE TodoChildren(_)
TodoChildren(children) ==
    IF Len(children) = 0 THEN <<>>
    ELSE Append(TodoChildren(Tail(children)), TodoNode(Head(children)))

LabelDef(n) == Line("label", <<<<"label", n>>>>)

\* gen_if_instr up to gen_node(code): the state, and what is left to do
gen_if_head(g, condition, code, else_code) ==
    LET c == gen_expression(g, condition)
        else_label == c.g.label_index
        end_label == c.g.label_index + 1
        g1 == get_label(get_label(c.g))
    IN  IF c.g.err # "" THEN [g |-> c.g, todo |-> <<>>]
        ELSE IF ~SizeOk(c.reg.size) THEN [g |-> GFail(g1, SizeError), todo |-> <<>>]
        ELSE LET instr_index == size_to_instruction_index(c.reg.size)
                 g2 == Write(g1, Line(CMP_INSTR[instr_index + 1],
                                      <<<<"imm", 0>>, Reg(instr_index, c.reg)>>))
                 g3 == Write(g2, Line("jz", <<<<"label", IF else_code # <<>>
                                                          THEN else_label
                                                          ELSE end_label>>>>))
             IN  [g |-> g3,
                  todo |-> <<[kind |-> "if_code", else_code |-> else_code,
                              else_label |-> else_label, end_label |-> end_label,
                              condition_reg |-> c.reg],
                             TodoNode(code)>>]

\* gen_if_instr after gen_node(code) with the jump to the end label left out
gen_if_code_fallthrough(g, item) ==
    IF item.else_code # <<>>
    THEN [g |-> Write(g, LabelDef(item.else_label)),
          todo |-> <<[kind |-> "if_end", end_label |-> item.end_label,
                      condition_reg |-> item.condition_reg],
                     TodoNode(item.else_code[1])>>]
    ELSE [g |-> free_register(Write(g, LabelDef(item.end_label)), item.condition_reg),
          todo |-> <<>>]

\* gen_if_instr from the return of gen_node(code) to gen_node(else_code), or to its end
gen_if_code(g, item) ==
    LET g1 == Write(g, Line("jmp", <<<<"label", item.end_label>>>>))
    IN  IF item.else_code # <<>>
        THEN [g |-> Write(g1, LabelDef(item.else_label)),
              todo |-> <<[kind |-> "if_end", end_label |-> item.end_label,
                          condition_reg |-> item.condition_reg],
                         TodoNode(item.else_code[1])>>]
        ELSE [g |-> free_register(Write(g1, LabelDef(item.end_label)), item.condition_reg),
              todo |-> <<>>]

\* gen_if_end that frees nothing
gen_if_end_leak(g, item) == Write(g, LabelDef(item.end_label))

\* gen_if_instr from the return of gen_node(else_code)
gen_if_end(g, item) ==
    free_register(Write(g, LabelDef(item.end_label)), item.condition_reg)

\* gen_while_instr up to gen_node(code)
gen_while_head(g, condition, code) ==
    LET start_label == g.label_index
        end_label == g.label_index + 1
        g1 == Write(get_label(get_label(g)), LabelDef(start_label))
        c == gen_expression(g1, condition)
    IN  IF c.g.err # "" THEN [g |-> c.g, todo |-> <<>>]
        ELSE IF ~SizeOk(c.reg.size) THEN [g |-> GFail(c.g, SizeError), todo |-> <<>>]
        ELSE LET instr_index == size_to_instruction_index(c.reg.size)
                 g2 == Write(c.g, Line(CMP_INSTR[instr_index + 1],
                                       <<<<"imm", 0>>, Reg(instr_index, c.reg)>>))
                 g3 == Write(g2, Line("jz", <<<<"label", end_label>>>>))
             IN  [g |-> g3,
                  todo |-> <<[kind |-> "while_end", start_label |-> start_label,
                              end_label |-> end_label, condition_reg |-> c.reg],
                             TodoNode(code)>>]

\* gen_while_instr from the return of gen_node(code)
gen_while_end(g, item) ==
    free_register(
        Write(Write(g, Line("jmp", <<<<"label", item.start_label>>>>)),
              LabelDef(item.end_label)),
        item.condition_reg)

\* gen_function_instr up to gen_node(code)
gen_function_head(g, symbol, code) ==
    IF symbol.symbol_type # "Function"
    THEN [g |-> GFail(g, "assertion failed: symbol.symbol_type == SymbolType::Function"),
          todo |-> <<>>]
    ELSE LET g1 == Write(g, Line("function", <<<<"name", symbol.name>>>>))
             g2 == Write(g1, Line("push", <<<<"rbp">>>>))
             g3 == Write(g2, Line("mov", <<<<"rsp">>, <<"rbp">>>>))
         IN  [g |-> g3,
              todo |-> <<[kind |-> "function_end", symbol |-> symbol], TodoNode(code)>>]

\* gen_function_instr from the return of gen_node(code)
gen_function_end(g, item) ==
    LET g1 == Write(g, Line("mov", <<<<"rbp">>, <<"rsp">>>>))
        g2 == Write(g1, Line("pop", <<<<"rbp">>>>))
    IN  IF item.symbol.primitive_type # "Void"
        THEN GFail(g2, "assertion failed: symbol.primitive_type == PrimitiveType::Void")
        ELSE Write(g2, Line("ret", <<>>))

\* the loop at the end of gen / do_post_check
do_post_check(g) ==
    IF \E i \in 1..NumRegisters : g.registers[i] # <<>>
    THEN GFail(g, "Not all registers were freed!")
    ELSE g

(***************************************************************************)
(* The compilation of one program: main's Parser::new(tokens).parse(),     *)
(* then CodeGenerator::new(..).gen(&node)                                  *)
(***************************************************************************)
Init ==
    /\ tokens \in Programs
    /\ index = 0
    /\ scope = ParserNewScope
    /\ pstack = <<[kind |-> "parse", children |-> <<>>]>>
    /\ entry_scope = <<>>
    /\ ast = <<>>
    /\ registers = GeneratorNew.registers
    /\ label_index = GeneratorNew.label_index
    /\ output = GeneratorNew.output
    /\ gstack = <<>>
    /\ phase = "parse"
    /\ err = ""
    /\ call = <<>>
    /\ result = <<>>

GenVars == <<registers, label_index, output, gstack>>

\* the parser's configuration in this state
Cur ==
    [p |-> [index |-> index, scope |-> scope, err |-> ""],
     stack |-> pstack, entry |-> entry_scope]

\* the parser moves to configuration c, or panics
ParserBecomes(c) ==
    /\ index' = c.p.index
    /\ scope' = c.p.scope
    /\ pstack' = c.stack
    /\ entry_scope' = c.entry
    /\ err' = c.p.err
    /\ phase' = IF Failed(c.p) THEN "panic" ELSE "parse"
    /\ UNCHANGED <<tokens, ast, GenVars, call, result>>

\* a statement function returned r = [p, node] to the loop of the top frame
StatementParsed(r) == ParserBecomes(Deliver([Cur EXCEPT !.p = r.p], r.node))

\* the loop of parse() or parse_block() is about to call parse_single()
AtStatement ==
    /\ phase = "parse"
    /\ PeekOk(Cur.p, 0)
    /\ ~(Top(pstack).kind = "block" /\ Peek(Cur.p, 0).token_type = "RightBrace")

NextIs(token_type) == Peek(Cur.p, 0).token_type = token_type

\* parse(): the loop ends, the Block of the nodes is returned
ParseReturn ==
    /\ phase = "parse"
    /\ Top(pstack).kind = "parse"
    /\ Eof(Cur.p)
    /\ ast' = <<Block(Top(pstack).children)>>
    /\ phase' = "parsed"
    /\ UNCHANGED <<tokens, index, scope, pstack, entry_scope, err, GenVars, call, result>>

ParseVariableDeclaration ==
    /\ AtStatement
    /\ NextIs("Var")
    /\ StatementParsed(parse_variable_declaration(Cur.p))

ParseAssignment ==
    /\ AtStatement
    /\ NextIs("Identifier")
    /\ PeekOk(Cur.p, 1)
    /\ Peek(Cur.p, 1).token_type = "EqualSign"
    /\ StatementParsed(parse_assignment(Cur.p))

ParseFunctioncall ==
    /\ AtStatement
    /\ NextIs("Identifier")
    /\ PeekOk(Cur.p, 1)
    /\ Peek(Cur.p, 1).token_type = "LeftParen"
    /\ StatementParsed(parse_functioncall(Cur.p))

\* parse_block, called by parse_single, up to its loop
ParseBlock ==
    /\ AtStatement
    /\ NextIs("LeftBrace")
    /\ ParserBecomes(EnterBlock(Cur))

\* parse_block's loop ends at the `}`
ParseBlockEnd ==
    /\ phase = "parse"
    /\ Top(pstack).kind = "block"
    /\ PeekOk(Cur.p, 0)
    /\ NextIs("RightBrace")
    /\ ParserBecomes(ExitBlock(Cur))

ParseIf ==
    /\ AtStatement
    /\ NextIs("If")
    /\ ParserBecomes(ConditionHead(Cur, "If", "if_then",
                                   "If statement should contain a boolean expression"))

ParseWhile ==
    /\ AtStatement
    /\ NextIs("While")
    /\ ParserBecomes(ConditionHead(Cur, "While", "while",
                        "While statement condition should be a boolean expression"))

ParseFunction ==
    /\ AtStatement
    /\ NextIs("Function")
    /\ ParserBecomes(FunctionHead(Cur))

\* parse_single and parse_block's loop, where they panic at once: the end of the
\* tokens inside a block or after an identifier, a token that starts no statement
ParseUnexpected ==
    /\ phase = "parse"
    /\ \/ Top(pstack).kind = "block" /\ ~PeekOk(Cur.p, 0)
       \/ /\ AtStatement
          /\ NextIs("Identifier")
          /\ ~PeekOk(Cur.p, 1)
       \/ /\ AtStatement
          /\ NextIs("Identifier")
          /\ PeekOk(Cur.p, 1)
          /\ Peek(Cur.p, 1).token_type \notin {"LeftParen", "EqualSign"}
       \/ /\ AtStatement
          /\ Peek(Cur.p, 0).token_type \notin
                {"LeftBrace", "If", "While", "Var", "Function", "Identifier"}
    /\ ParserBecomes([Cur EXCEPT !.p = Fail(Cur.p,
            IF PeekOk(Cur.p, 0) /\ (~NextIs("Identifier") \/ PeekOk(Cur.p, 1))
            THEN "Unexpected token" ELSE PeekError)])

\* the generator's state in this state
CurGen ==
    [registers |-> registers, label_index |-> label_index, output |-> output, err |-> ""]

\* the generator moves to state g with `todo` in place of the top of gstack, or panics
GeneratorBecomes(g, todo) ==
    /\ registers' = g.registers
    /\ label_index' = g.label_index
    /\ output' = g.output
    /\ err' = g.err
    /\ gstack' = IF g.err # "" THEN gstack ELSE Pop(gstack) \o todo
    /\ phase' = IF g.err # "" THEN "panic" ELSE "generate"
    /\ UNCHANGED <<tokens, index, scope, pstack, entry_scope, ast, call, result>>

\* gen_node(node) is about to be called
AtNode(kind) ==
    /\ phase = "generate"
    /\ Top(gstack).kind = "node"
    /\ Top(gstack).node.kind = kind

\* gen, up to gen_node(node), on a new CodeGenerator
Gen ==
    /\ phase = "parsed"
    /\ GeneratorBecomes(
           Write(Write(GeneratorNew, Line(".globl", <<<<"name", <<"m", "a", "i", "n">>>>>>)),
                 Line(".type", <<<<"name", <<"m", "a", "i", "n">>>>>>)),
           <<[kind |-> "post_check"], TodoNode(ast[1])>>)

\* gen_block
GenBlock ==
    /\ AtNode("Block")
    /\ GeneratorBecomes(CurGen, TodoChildren(Top(gstack).node.children))

GenVariableDeclaration ==
    /\ AtNode("VariableDeclaration")
    /\ GeneratorBecomes(CurGen, <<>>)

GenAssignment ==
    /\ AtNode("Assignment")
    /\ GeneratorBecomes(gen_assignment(CurGen, Top(gstack).node.symbol,
                                       Top(gstack).node.expression), <<>>)

GenFunctioncall ==
    /\ AtNode("FunctionCall")
    /\ GeneratorBecomes(gen_functioncall_instr(CurGen, Top(gstack).node.name,
                                               Top(gstack).node.params), <<>>)

GenIf ==
    /\ AtNode("If")
    /\ LET r == gen_if_head(CurGen, Top(gstack).node.condition, Top(gstack).node.code,
                            Top(gstack).node.else_code)
       IN  GeneratorBecomes(r.g, r.todo)

GenIfCode ==
    /\ phase = "generate"
    /\ Top(gstack).kind = "if_code"
    /\ LET r == gen_if_code(CurGen, Top(gstack))
       IN  GeneratorBecomes(r.g, r.todo)

GenIfEnd ==
    /\ phase = "generate"
    /\ Top(gstack).kind = "if_end"
    /\ GeneratorBecomes(gen_if_end(CurGen, Top(gstack)), <<>>)

GenWhile ==
    /\ AtNode("While")
    /\ LET r == gen_while_head(CurGen, Top(gstack).node.condition, Top(gstack).node.code)
       IN  GeneratorBecomes(r.g, r.todo)

GenWhileEnd ==
    /\ phase = "generate"
    /\ Top(gstack).kind = "while_end"
    /\ GeneratorBecomes(gen_while_end(CurGen, Top(gstack)), <<>>)

GenFunction ==
    /\ AtNode("Function")
    /\ LET r == gen_function_head(CurGen, Top(gstack).node.symbol, Top(gstack).node.code)
       IN  GeneratorBecomes(r.g, r.todo)

GenFunctionEnd ==
    /\ phase = "generate"
    /\ Top(gstack).kind = "function_end"
    /\ GeneratorBecomes(gen_function_end(CurGen, Top(gstack)), <<>>)

\* gen, after gen_node(node): the registers are checked and gen returns
GenPostCheck ==
    /\ phase = "generate"
    /\ Top(gstack).kind = "post_check"
    /\ LET g == do_post_check(CurGen)
       IN  /\ err' = g.err
           /\ phase' = IF g.err # "" THEN "panic" ELSE "done"
           /\ gstack' = <<>>
           /\ UNCHANGED <<tokens, index, scope, pstack, entry_scope, ast, registers,
                          label_index, output, call, result>>

Next ==
    \/ ParseReturn
    \/ ParseVariableDeclaration
    \/ ParseAssignment
    \/ ParseFunctioncall
    \/ ParseBlock
    \/ ParseBlockEnd
    \/ ParseIf
    \/ ParseWhile
    \/ ParseFunction
    \/ ParseUnexpected
    \/ Gen
    \/ GenBlock
    \/ GenVariableDeclaration
    \/ GenAssignment
    \/ GenFunctioncall
    \/ GenIf
    \/ GenIfCode
    \/ GenIfEnd
    \/ GenWhile
    \/ GenWhileEnd
    \/ GenFunction
    \/ GenFunctionEnd
    \/ GenPostCheck

Spec == Init /\ [][Next]_vars

(***************************************************************************)
(* The functions on their own: one call of a function on inputs drawn from *)
(* a set, `call` its arguments and `result` what it returned               *)
(***************************************************************************)
(***************************************************************************)
(* gen called a second time on the AstNode of a finished compilation, on   *)
(* the same CodeGenerator or on a new one with an output of its own:       *)
(* `call` holds which, `result` the text of the first generation           *)
(***************************************************************************)
GenCalledAgain(instance, g) ==
    /\ phase = "done"
    /\ call = <<>>
    /\ call' = <<instance>>
    /\ result' = <<output>>
    /\ LET g2 == Write(Write(g, Line(".globl", <<<<"name", <<"m", "a", "i", "n">>>>>>)),
                       Line(".type", <<<<"name", <<"m", "a", "i", "n">>>>>>))
       IN  /\ registers' = g2.registers
           /\ label_index' = g2.label_index
           /\ output' = g2.output
    /\ gstack' = <<[kind |-> "post_check"], TodoNode(ast[1])>>
    /\ phase' = "generate"
    /\ UNCHANGED <<tokens, index, scope, pstack, entry_scope, ast, err>>

GenAgainSameGenerator == GenCalledAgain("same", CurGen)

GenAgainNewGenerator == GenCalledAgain("new", GeneratorNew)

NextTwice ==
    \/ Next
    \/ GenAgainSameGenerator
    \/ GenAgainNewGenerator

SpecTwice == Init /\ [][NextTwice]_vars

\* the variables of the compiler's run that a single call leaves as they start
PipelineIdle ==
    /\ pstack = <<>>
    /\ entry_scope = <<>>
    /\ ast = <<>>
    /\ registers = GeneratorNew.registers
    /\ label_index = GeneratorNew.label_index
    /\ output = GeneratorNew.output
    /\ gstack = <<>>
    /\ err = ""
    /\ result = <<>>

PipelineVars == <<pstack, entry_scope, ast, GenVars>>

\* ---- PrimitiveType::is_compatible_with ----
InitTypes ==
    /\ call \in [self : PrimitiveType, dest_type : PrimitiveType, one_sided : BOOLEAN]
    /\ tokens = <<>>
    /\ index = 0
    /\ scope = <<>>
    /\ phase = "call"
    /\ PipelineIdle

IsCompatibleWith ==
    /\ phase = "call"
    /\ result' = <<is_compatible_with(call.self, call.dest_type, call.one_sided)>>
    /\ phase' = "returned"
    /\ UNCHANGED <<tokens, index, scope, err, call, PipelineVars>>

NextTypes == IsCompatibleWith

SpecTypes == InitTypes /\ [][NextTypes]_vars

\* ---- parse_unary_expression on an integer literal ----
MaxLitDigits == 3

Digits == {DigitChars[d] : d \in 1..10}

\* 6553d, 429496729d and 1844674407370955161d: the values about 2^16, 2^32 and 2^64
BoundaryPrefixes ==
    {<<"6", "5", "5", "3">>,
     <<"4", "2", "9", "4", "9", "6", "7", "2", "9">>,
     <<"1", "8", "4", "4", "6", "7", "4", "4", "0", "7", "3", "7", "0", "9", "5", "5",
       "1", "6", "1">>}

LiteralInputs ==
    (SeqsUpTo(Digits, MaxLitDigits) \ {<<>>})
        \cup {prefix \o <<d>> : prefix \in BoundaryPrefixes, d \in Digits}

InitLiteral ==
    /\ tokens \in {<<TInt(digits)>> : digits \in LiteralInputs}
    /\ index = 0
    /\ scope = ParserNewScope
    /\ phase = "call"
    /\ call = <<>>
    /\ PipelineIdle

\* a call of a parser function returned r = [p, node], or panicked
ParserFunctionReturns(r) ==
    /\ index' = r.p.index
    /\ scope' = r.p.scope
    /\ err' = r.p.err
    /\ result' = IF Failed(r.p) THEN <<>> ELSE <<r.node>>
    /\ phase' = IF Failed(r.p) THEN "panic" ELSE "returned"
    /\ UNCHANGED <<tokens, call, PipelineVars>>

ParseUnaryExpression ==
    /\ phase = "call"
    /\ ParserFunctionReturns(
           parse_unary_expression([index |-> index, scope |-> scope, err |-> ""]))

NextLiteral == ParseUnaryExpression

SpecLiteral == InitLiteral /\ [][NextLiteral]_vars

\* ---- Scope::add on a fresh Scope ----
MaxAdds == 3

ScopeNames == {X, Y}

ScopeTypes == {"UInt8", "Int16", "UInt32", "UInt64", "Bool"}

InitScope ==
    /\ scope = <<ScopeNew>>
    /\ call = <<>>
    /\ tokens = <<>>
    /\ index = 0
    /\ phase = "call"
    /\ PipelineIdle

\* scope.add(name, primitive_type, vec![], SymbolType::Variable): `call` collects
\* the arguments of the calls so far, `result` the symbols they returned
ScopeAddVariable ==
    /\ phase = "call"
    /\ Len(call) < MaxAdds
    /\ \E name \in ScopeNames, primitive_type \in ScopeTypes :
          LET r == ScopeAdd(scope[1], name, primitive_type, <<>>, "Variable")
          IN  /\ scope' = <<r.scope>>
              /\ result' = Append(result, r.symbol)
              /\ call' = Append(call, [name |-> name, primitive_type |-> primitive_type])
    /\ UNCHANGED <<tokens, index, phase, err, PipelineVars>>

NextScope == ScopeAddVariable

SpecScope == InitScope /\ [][NextScope]_vars

\* ---- parse_expression ----
MaxOperands == 3

NameA == <<"a">>

NameB == <<"b">>

NameC == <<"c">>

NameD == <<"d">>

\* the scopes after `var a: u8; var b: u32; var c: i16; var d: bool;`
ExprScope ==
    LET s1 == add_to_scope(ParserNewScope, NameA, "UInt8", <<>>, "Variable").scope
        s2 == add_to_scope(s1, NameB, "UInt32", <<>>, "Variable").scope
        s3 == add_to_scope(s2, NameC, "Int16", <<>>, "Variable").scope
    IN  add_to_scope(s3, NameD, "Bool", <<>>, "Variable").scope

TStar == TP("Star", "*")

ExprOperands == {TId(NameA), TId(NameB), TId(NameC), TId(NameD), TInt(<<"3", "0", "0">>)}

ExprOperators == {TPlus, TStar, TLess, TEqEq}

\* operand operator operand ... operand ;
ExprSource(operands, operators) ==
    [k \in 1..(2 * Len(operands)) |->
        IF k = 2 * Len(operands) THEN TSemi
        ELSE IF k % 2 = 1 THEN operands[(k + 1) \div 2]
        ELSE operators[k \div 2]]

ExprInputs ==
    UNION {{ExprSource(operands, operators) :
                operands \in [1..n -> ExprOperands],
                operators \in [1..(n - 1) -> ExprOperators]} : n \in 1..MaxOperands}

InitExpr ==
    /\ tokens \in ExprInputs
    /\ index = 0
    /\ scope = ExprScope
    /\ phase = "call"
    /\ call = <<>>
    /\ PipelineIdle

ParseExpression ==
    /\ phase = "call"
    /\ ParserFunctionReturns(
           parse_expression([index |-> index, scope |-> scope, err |-> ""], Zero))

NextExpr == ParseExpression

SpecExpr == InitExpr /\ [][NextExpr]_vars

(***************************************************************************)
(* What the claims speak of                                                *)
(***************************************************************************)
RECURSIVE NodesOf(_)
RECURSIVE NodesOfAll(_)

\* ---- gen_functioncall_instr on a new generator ----
MaxArgs == 5

NameF == <<"f">>

\* the arguments 1, x (a u32 variable) and y (a u64 variable)
ArgumentNodes ==
    {NumericLiteral(LiteralType(parse_u64(<<"1">>)[1]), parse_u64(<<"1">>)[1]),
     Identifier(Symbol("Variable", "UInt32", <<>>, X, 4)),
     Identifier(Symbol("Variable", "UInt64", <<>>, Y, 12))}

InitCall ==
    /\ call \in {FunctionCall(NameF, params) : params \in SeqsUpTo(ArgumentNodes, MaxArgs)}
    /\ tokens = <<>>
    /\ index = 0
    /\ scope = <<>>
    /\ phase = "call"
    /\ PipelineIdle

\* gen_functioncall_instr returned or panicked, leaving generator g
GeneratorFunctionReturns(g) ==
    /\ registers' = g.registers
    /\ label_index' = g.label_index
    /\ output' = g.output
    /\ err' = g.err
    /\ phase' = IF g.err # "" THEN "panic" ELSE "returned"
    /\ UNCHANGED <<tokens, index, scope, pstack, entry_scope, ast, gstack, call, result>>

GenFunctioncallInstr ==
    /\ phase = "call"
    /\ GeneratorFunctionReturns(gen_functioncall_instr(CurGen, call.name, call.params))

NextCall == GenFunctioncallInstr

SpecCall == InitCall /\ [][NextCall]_vars

\* ---- the compilation of `var x: T; if x ? n { x = 1; ... } else { x = 2; ... }` ----
MaxBranch == 2

\* k times `x = value;`
Repeated(value, k) == Flatten([i \in 1..k |-> SrcAssign(X, <<TInt(<<value>>)>>)])

IfElseConditions ==
    {<<TId(X), operator, TInt(<<n>>)>> : operator \in {TEqEq, TLess}, n \in {"0", "1"}}
        \cup {<<TLParen>> \o c \o <<TRParen>> :
                 c \in {<<TId(X), operator, TInt(<<"0">>)>> : operator \in {TEqEq, TLess}}}

IfElsePrograms ==
    {SrcVar(X, type) \o SrcIfElse(condition, Repeated("1", k), Repeated("2", m)) :
        type \in {<<"u", "8">>, <<"u", "3", "2">>},
        condition \in IfElseConditions,
        k \in 0..MaxBranch, m \in 0..MaxBranch}

InitIfElse ==
    /\ tokens \in IfElsePrograms
    /\ index = 0
    /\ scope = ParserNewScope
    /\ pstack = <<[kind |-> "parse", children |-> <<>>]>>
    /\ phase = "parse"
    /\ call = <<>>
    /\ entry_scope = <<>>
    /\ ast = <<>>
    /\ registers = GeneratorNew.registers
    /\ label_index = GeneratorNew.label_index
    /\ output = GeneratorNew.output
    /\ gstack = <<>>
    /\ err = ""
    /\ result = <<>>

NextIfElse ==
    \/ ParseReturn
    \/ ParseVariableDeclaration
    \/ ParseAssignment
    \/ ParseBlockEnd
    \/ ParseIf
    \/ Gen
    \/ GenBlock
    \/ GenVariableDeclaration
    \/ GenAssignment
    \/ GenIf
    \/ GenIfCode
    \/ GenIfEnd
    \/ GenPostCheck

SpecIfElse == InitIfElse /\ [][NextIfElse]_vars

\* ---- Lexer::new(input).tokenize() ----
MaxChars == 4

LexChars == {"x", "1", ";", " ", "\n", "#"}

InitLexer ==
    /\ call \in SeqsUpTo(LexChars, MaxChars)
    /\ tokens = <<>>
    /\ index = 0
    /\ scope = <<>>
    /\ phase = "call"
    /\ PipelineIdle

Tokenize ==
    /\ phase = "call"
    /\ LET r == tokenize(call)
       IN  /\ result' = IF r.err # "" THEN <<>> ELSE <<r.tokens>>
           /\ err' = r.err
           /\ phase' = IF r.err # "" THEN "panic" ELSE "returned"
    /\ UNCHANGED <<tokens, index, scope, call, PipelineVars>>

NextLexer == Tokenize

SpecLexer == InitLexer /\ [][NextLexer]_vars

\* ---- parse_expression(Zero) on chains of every operator ----
MaxTerms == 4

ShapeNames == <<"a", "b", "c", "d", "e", "f">>

ShapeOperand(k) == TId(<<ShapeNames[k]>>)

\* the scopes after `var a: u8; var b: u8; ...`
RECURSIVE ShapeScope(_)
ShapeScope(n) ==
    IF n = 0 THEN ParserNewScope
    ELSE add_to_scope(ShapeScope(n - 1), <<ShapeNames[n]>>, "UInt8", <<>>, "Variable").scope

ShapeOperators ==
    {TPlus, TP("Minus", "-"), TStar, TP("Slash", "/"), TLess,
     Token("LessThanOrEqual", <<"<", "=">>), TP("GreaterThan", ">"),
     Token("GreaterThanOrEqual", <<">", "=">>), TEqEq, Token("NotEqualSign", <<"!", "=">>)}

ShapeInputs ==
    UNION {{ExprSource([k \in 1..n |-> ShapeOperand(k)], operators) :
                operators \in [1..(n - 1) -> ShapeOperators]} : n \in 1..MaxTerms}

InitShape ==
    /\ tokens \in ShapeInputs
    /\ index = 0
    /\ scope = ShapeScope(MaxTerms)
    /\ phase = "call"
    /\ call = <<>>
    /\ PipelineIdle

NextShape == ParseExpression

SpecShape == InitShape /\ [][NextShape]_vars

\* ---- var a: u8; var d: bool; and one if or while over them ----
MaxCondTerms == 2

CondOperands == {TId(NameA), TId(NameD), TInt(<<"1">>)}

CondOperators == {TPlus, TLess, TEqEq}

\* operand operator operand ... operand
CondSource(operands, operators) ==
    [k \in 1..(2 * Len(operands) - 1) |->
        IF k % 2 = 1 THEN operands[(k + 1) \div 2] ELSE operators[k \div 2]]

Conditions ==
    UNION {{CondSource(operands, operators) :
                operands \in [1..n -> CondOperands],
                operators \in [1..(n - 1) -> CondOperators]} : n \in 1..MaxCondTerms}

CondPrograms ==
    {SrcVar(NameA, <<"u", "8">>) \o SrcVar(NameD, <<"b", "o", "o", "l">>) \o statement :
        statement \in {SrcIfElse(condition, <<>>, <<>>) : condition \in Conditions}
                         \cup {SrcWhile(condition, <<>>) : condition \in Conditions}}

InitCond ==
    /\ tokens \in CondPrograms
    /\ index = 0
    /\ scope = ParserNewScope
    /\ pstack = <<[kind |-> "parse", children |-> <<>>]>>
    /\ phase = "parse"
    /\ call = <<>>
    /\ entry_scope = <<>>
    /\ ast = <<>>
    /\ registers = GeneratorNew.registers
    /\ label_index = GeneratorNew.label_index
    /\ output = GeneratorNew.output
    /\ gstack = <<>>
    /\ err = ""
    /\ result = <<>>

NextCond ==
    \/ ParseReturn
    \/ ParseVariableDeclaration
    \/ ParseBlockEnd
    \/ ParseIf
    \/ ParseWhile

SpecCond == InitCond /\ [][NextCond]_vars

\* ---- one or two declarations and one assignment to x ----
MaxSummands == 2

AssignTypes == {<<"u", "8">>, <<"u", "3", "2">>, <<"i", "8">>, <<"i", "1", "6">>}

AssignLiterals == {TInt(<<"1">>), TInt(<<"3">>), TInt(<<"4">>)}

\* var x: T; x = n + ... + n;
LiteralPrograms ==
    UNION {{SrcVar(X, type) \o SrcAssign(X, CondSource(literals, [k \in 1..(n - 1) |-> TPlus])) :
                type \in AssignTypes, literals \in [1..n -> AssignLiterals]} :
           n \in 1..MaxSummands}

\* var x: T; var y: T; x = y; or x = y + y; or x = x + y;
VariablePrograms ==
    {SrcVar(X, type) \o SrcVar(Y, other) \o SrcAssign(X, expression) :
        type \in AssignTypes, other \in AssignTypes,
        expression \in {<<TId(Y)>>, <<TId(Y), TPlus, TId(Y)>>, <<TId(X), TPlus, TId(Y)>>}}

AssignPrograms == LiteralPrograms \cup VariablePrograms

InitAssign ==
    /\ tokens \in AssignPrograms
    /\ index = 0
    /\ scope = ParserNewScope
    /\ pstack = <<[kind |-> "parse", children |-> <<>>]>>
    /\ phase = "parse"
    /\ call = <<>>
    /\ entry_scope = <<>>
    /\ ast = <<>>
    /\ registers = GeneratorNew.registers
    /\ label_index = GeneratorNew.label_index
    /\ output = GeneratorNew.output
    /\ gstack = <<>>
    /\ err = ""
    /\ result = <<>>

NextAssign ==
    \/ ParseReturn
    \/ ParseVariableDeclaration
    \/ ParseAssignment
    \/ Gen
    \/ GenBlock
    \/ GenVariableDeclaration
    \/ GenAssignment
    \/ GenPostCheck

SpecAssign == InitAssign /\ [][NextAssign]_vars

\* ---- var x: T; x = expr and the token after it; then more assignments ----
MaxFollow == 1

Terminators == {TSemi, TRParen, TComma, TLBrace}

TerminatorPrograms ==
    {SrcVar(X, type) \o <<TId(X), TEq, literal, terminator>>
         \o Flatten([i \in 1..k |-> SrcAssign(X, <<literal>>)]) :
        type \in AssignTypes, literal \in AssignLiterals, terminator \in Terminators,
        k \in 0..MaxFollow}

InitTerminator ==
    /\ tokens \in TerminatorPrograms
    /\ index = 0
    /\ scope = ParserNewScope
    /\ pstack = <<[kind |-> "parse", children |-> <<>>]>>
    /\ phase = "parse"
    /\ call = <<>>
    /\ entry_scope = <<>>
    /\ ast = <<>>
    /\ registers = GeneratorNew.registers
    /\ label_index = GeneratorNew.label_index
    /\ output = GeneratorNew.output
    /\ gstack = <<>>
    /\ err = ""
    /\ result = <<>>

NextTerminator ==
    \/ ParseReturn
    \/ ParseVariableDeclaration
    \/ ParseAssignment

SpecTerminator == InitTerminator /\ [][NextTerminator]_vars

\* ---- var a: u8; a = a chain of additions, left-associated or right-nested ----
MaxChain == 5

ChainOperands == {TId(NameA), TInt(<<"1">>)}

\* o1 + o2 + ... + on
LeftChain(operands) == CondSource(operands, [k \in 1..(Len(operands) - 1) |-> TPlus])

\* o1 + (o2 + (... + (on)))
RECURSIVE RightNested(_)
RightNested(operands) ==
    IF Len(operands) = 1 THEN operands
    ELSE <<Head(operands), TPlus, TLParen>> \o RightNested(Tail(operands)) \o <<TRParen>>

ChainPrograms ==
    UNION {{SrcVar(NameA, <<"u", "8">>) \o SrcAssign(NameA, expression) :
                expression \in {LeftChain(operands) : operands \in [1..n -> ChainOperands]}
                                  \cup {RightNested(operands) :
                                            operands \in [1..n -> ChainOperands]}} :
           n \in 1..MaxChain}

InitChain ==
    /\ tokens \in ChainPrograms
    /\ index = 0
    /\ scope = ParserNewScope
    /\ pstack = <<[kind |-> "parse", children |-> <<>>]>>
    /\ phase = "parse"
    /\ call = <<>>
    /\ entry_scope = <<>>
    /\ ast = <<>>
    /\ registers = GeneratorNew.registers
    /\ label_index = GeneratorNew.label_index
    /\ output = GeneratorNew.output
    /\ gstack = <<>>
    /\ err = ""
    /\ result = <<>>

NextChain ==
    \/ ParseReturn
    \/ ParseVariableDeclaration
    \/ ParseAssignment
    \/ Gen
    \/ GenBlock
    \/ GenVariableDeclaration
    \/ GenAssignment
    \/ GenPostCheck

SpecChain == InitChain /\ [][NextChain]_vars

\* ---- var x: T; and one call of print8 or printsum with 0 or more arguments ----
MaxCallArgs == 3

\* a1 , a2 , ... , an
ArgumentList(arguments) ==
    [k \in 1..(2 * Len(arguments) - 1) |->
        IF k % 2 = 1 THEN arguments[(k + 1) \div 2] ELSE TComma]

ArityPrograms ==
    {SrcVar(X, type) \o <<TId(name), TLParen>> \o ArgumentList(arguments)
         \o <<TRParen, TSemi>> :
        type \in {<<"u", "8">>, <<"u", "3", "2">>},
        name \in {NamePrint8, NamePrintsum},
        arguments \in SeqsUpTo({TId(X), TInt(<<"1">>)}, MaxCallArgs)}

InitArity ==
    /\ tokens \in ArityPrograms
    /\ index = 0
    /\ scope = ParserNewScope
    /\ pstack = <<[kind |-> "parse", children |-> <<>>]>>
    /\ phase = "parse"
    /\ call = <<>>
    /\ entry_scope = <<>>
    /\ ast = <<>>
    /\ registers = GeneratorNew.registers
    /\ label_index = GeneratorNew.label_index
    /\ output = GeneratorNew.output
    /\ gstack = <<>>
    /\ err = ""
    /\ result = <<>>

NextArity ==
    \/ ParseReturn
    \/ ParseVariableDeclaration
    \/ ParseFunctioncall

SpecArity == InitArity /\ [][NextArity]_vars

\* ---- fn f(a: T, b: T) { printsum(.., ..); } ----
MaxRepeat == 1

ParameterPrograms ==
    {<<TFn, TId(NameF), TLParen, TId(NameA), TColon, TType(type), TComma,
       TId(NameB), TColon, TType(type), TRParen>>
         \o SrcBlock(Flatten([i \in 1..k |->
                <<TId(NamePrintsum), TLParen, first, TComma, second, TRParen, TSemi>>])) :
        type \in {<<"u", "8">>, <<"u", "3", "2">>},
        first \in {TId(NameA), TId(NameB), TInt(<<"1">>)},
        second \in {TId(NameA), TId(NameB), TInt(<<"1">>)},
        k \in 0..MaxRepeat}

InitParameter ==
    /\ tokens \in ParameterPrograms
    /\ index = 0
    /\ scope = ParserNewScope
    /\ pstack = <<[kind |-> "parse", children |-> <<>>]>>
    /\ phase = "parse"
    /\ call = <<>>
    /\ entry_scope = <<>>
    /\ ast = <<>>
    /\ registers = GeneratorNew.registers
    /\ label_index = GeneratorNew.label_index
    /\ output = GeneratorNew.output
    /\ gstack = <<>>
    /\ err = ""
    /\ result = <<>>

NextParameter ==
    \/ ParseReturn
    \/ ParseFunction
    \/ ParseFunctioncall
    \/ ParseBlockEnd
    \/ Gen
    \/ GenBlock
    \/ GenFunction
    \/ GenFunctioncall
    \/ GenFunctionEnd
    \/ GenPostCheck

SpecParameter == InitParameter /\ [][NextParameter]_vars

\* ---- while n < m { }, with <=, > and >= too, over literals of 8 and 16 bits ----
MaxWhiles == 1

CompareLiterals ==
    {TInt(<<"0">>), TInt(<<"1">>), TInt(<<"1", "2", "7">>), TInt(<<"1", "2", "8">>),
     TInt(<<"2", "0", "0">>), TInt(<<"3", "0", "0">>), TInt(<<"4", "0", "0", "0", "0">>)}

CompareOperators ==
    {TLess, Token("LessThanOrEqual", <<"<", "=">>), TP("GreaterThan", ">"),
     Token("GreaterThanOrEqual", <<">", "=">>)}

ComparePrograms ==
    {Flatten([i \in 1..k |-> SrcWhile(<<left, operator, right>>, <<>>)]) :
        left \in CompareLiterals, operator \in CompareOperators, right \in CompareLiterals,
        k \in 1..MaxWhiles}

InitCompare ==
    /\ tokens \in ComparePrograms
    /\ index = 0
    /\ scope = ParserNewScope
    /\ pstack = <<[kind |-> "parse", children |-> <<>>]>>
    /\ phase = "parse"
    /\ call = <<>>
    /\ entry_scope = <<>>
    /\ ast = <<>>
    /\ registers = GeneratorNew.registers
    /\ label_index = GeneratorNew.label_index
    /\ output = GeneratorNew.output
    /\ gstack = <<>>
    /\ err = ""
    /\ result = <<>>

NextCompare ==
    \/ ParseReturn
    \/ ParseWhile
    \/ ParseBlockEnd
    \/ Gen
    \/ GenBlock
    \/ GenWhile
    \/ GenWhileEnd
    \/ GenPostCheck

SpecCompare == InitCompare /\ [][NextCompare]_vars

\* the nodes of each of `nodes`, in order
NodesOfAll(nodes) ==
    IF Len(nodes) = 0 THEN <<>> ELSE NodesOf(Head(nodes)) \o NodesOfAll(Tail(nodes))

\* every node of the tree below `node`, itself first
NodesOf(node) ==
    <<node>> \o
    CASE node.kind = "BinaryOperation" -> NodesOf(node.left) \o NodesOf(node.right)
      [] node.kind = "Widen" -> NodesOf(node.node)
      [] node.kind = "Assignment" -> NodesOf(node.expression)
      [] node.kind = "FunctionCall" -> NodesOfAll(node.params)
      [] node.kind = "If" ->
           NodesOf(node.condition) \o NodesOf(node.code) \o NodesOfAll(node.else_code)
      [] node.kind = "While" -> NodesOf(node.condition) \o NodesOf(node.code)
      [] node.kind = "Function" -> NodesOf(node.code)
      [] node.kind = "Block" -> NodesOfAll(node.children)
      [] OTHER -> <<>>

\* the nodes of the tree parse() returned
AstNodes == IF ast = <<>> THEN <<>> ELSE NodesOf(ast[1])

AllRegistersFree == \A i \in 1..NumRegisters : registers[i] = <<>>

\* the compilation ended in a panic of the parser
ParserPanicked == phase = "panic" /\ ast = <<>>

StatementKinds == {"Assignment", "FunctionCall", "If", "While", "Function", "Block"}

(***************************************************************************)
(* C1: every BinaryOperation node that reaches code generation has two     *)
(* operands whose types are not signed, and the generator's two            *)
(* !is_signed() assertions never fail.                                     *)
(***************************************************************************)
C1_BinaryOperandsNotSigned ==
    /\ \A i \in 1..Len(AstNodes) :
          AstNodes[i].kind = "BinaryOperation" =>
             /\ ~is_signed(get_primitive_type(AstNodes[i].left))
             /\ ~is_signed(get_primitive_type(AstNodes[i].right))
    /\ err \notin {AssertLeftNotSigned, AssertRightNotSigned}

(***************************************************************************)
(* C3: a name that is already bound in a Scope is not bound again there:   *)
(* the parser never gets past the second `var x` of one block, so no       *)
(* statement list holds two declarations of one name.                      *)
(***************************************************************************)
DeclaresTwice(children) ==
    \E i, j \in 1..Len(children) :
        /\ i < j
        /\ children[i].kind = "VariableDeclaration"
        /\ children[j].kind = "VariableDeclaration"
        /\ children[i].symbol.name = children[j].symbol.name

C3_RedeclarationIsFatal ==
    \A k \in 1..Len(pstack) :
        pstack[k].kind \in {"parse", "block"} => ~DeclaresTwice(pstack[k].children)

(***************************************************************************)
(* C4: shadowing.  A `var` inside a nested block whose name is bound in an *)
(* enclosing scope succeeds, lookup then returns the new symbol and the    *)
(* enclosing scopes are as before; and when a block closes, lookup of      *)
(* every name the block declared returns what it returned when the block   *)
(* was entered (but for the name of the function whose body the block is,  *)
(* which parse_function binds after the block).                            *)
(***************************************************************************)
DeclaredName == tokens[index + 2].value

DeclaredType == from_str(tokens[index + 4].value)[1]

ShadowingDeclaration ==
    /\ AtStatement
    /\ NextIs("Var")
    /\ Len(scope) > 1
    /\ find_scope_var(Pop(scope), DeclaredName) # <<>>

BlockCloses ==
    /\ phase = "parse"
    /\ Top(pstack).kind = "block"
    /\ PeekOk(Cur.p, 0)
    /\ NextIs("RightBrace")

BoundAfterBlock ==
    IF Len(pstack) > 1 /\ pstack[Len(pstack) - 1].kind = "function"
    THEN {pstack[Len(pstack) - 1].function_name}
    ELSE {}

C4_Shadowing ==
    [][/\ ShadowingDeclaration =>
             /\ phase' = "parse"
             /\ find_scope_var(scope', DeclaredName) # <<>>
             /\ find_scope_var(scope', DeclaredName)[1].primitive_type = DeclaredType
             /\ find_scope_var(scope', DeclaredName)[1] = Top(scope').symbols[DeclaredName]
             /\ Pop(scope') = Pop(scope)
       /\ BlockCloses =>
             /\ phase' = "parse"
             /\ \A n \in (DOMAIN Top(scope).symbols) \ BoundAfterBlock :
                    find_scope_var(scope', n) = find_scope_var(Top(entry_scope), n)
      ]_vars

\* a block that declared x again has closed, and the assignment after it was
\* parsed with the outer x
C4_Witness ==
    /\ phase = "parse"
    /\ Len(pstack) = 1
    /\ Len(pstack[1].children) = 3
    /\ pstack[1].children[1].kind = "VariableDeclaration"
    /\ pstack[1].children[1].symbol.primitive_type = "UInt8"
    /\ pstack[1].children[2].kind = "Block"
    /\ Len(pstack[1].children[2].children) > 0
    /\ pstack[1].children[2].children[1].kind = "VariableDeclaration"
    /\ pstack[1].children[2].children[1].symbol.name = pstack[1].children[1].symbol.name
    /\ pstack[1].children[2].children[1].symbol.primitive_type = "UInt64"
    /\ pstack[1].children[3].kind = "Assignment"
    /\ pstack[1].children[3].symbol = pstack[1].children[1].symbol

(***************************************************************************)
(* C5: register balance.  When code generation runs to its end, all four   *)
(* slots are free; the post-generation check never finds a leak and no     *)
(* slot is freed twice.                                                    *)
(***************************************************************************)
C5_RegisterBalance ==
    /\ phase = "done" => AllRegistersFree
    /\ err # "Not all registers were freed!"
    /\ err # "Trying to free a register which is already free!"

\* generation ended, of a program with an if-else, a comparison and a call
C5_Witness ==
    /\ phase = "done"
    /\ label_index > 0
    /\ \E i \in 1..Len(output) : output[i].op = "call"
    /\ \E i \in 1..Len(output) : output[i].op = "sete"
    /\ \E i \in 1..Len(AstNodes) : AstNodes[i].kind = "If" /\ AstNodes[i].else_code # <<>>

(***************************************************************************)
(* C6: whenever the generation of a statement begins (gen_node is called   *)
(* on an Assignment, FunctionCall, If, While, Function or Block), all four *)
(* slots are free.                                                         *)
(***************************************************************************)
C6_NoRegisterHeldAcrossStatements ==
    (/\ phase = "generate"
     /\ Top(gstack).kind = "node"
     /\ Top(gstack).node.kind \in StatementKinds) => AllRegistersFree

(***************************************************************************)
(* C10: a call of a name bound in no open scope, and a call whose argument *)
(* is not one-sided compatible with the declared parameter (it is of       *)
(* another type and is Bool, or signed for an unsigned parameter, or not   *)
(* narrower than the parameter), makes the parser panic; nothing has been  *)
(* generated or written then.                                              *)
(***************************************************************************)
AtCall ==
    /\ AtStatement
    /\ NextIs("Identifier")
    /\ PeekOk(Cur.p, 1)
    /\ Peek(Cur.p, 1).token_type = "LeftParen"

Callee == find_scope_var(scope, Peek(Cur.p, 0).value)

\* the call is `name ( identifier )`, the identifier bound
CallOfOneIdentifier ==
    /\ AtCall
    /\ PeekOk(Cur.p, 3)
    /\ Peek(Cur.p, 2).token_type = "Identifier"
    /\ Peek(Cur.p, 3).token_type = "RightParen"
    /\ find_scope_var(scope, Peek(Cur.p, 2).value) # <<>>

NotOneSidedCompatible(src, dst) ==
    /\ src # dst
    /\ \/ src = "Bool"
       \/ is_signed(src) /\ is_unsigned(dst)
       \/ get_size(dst) <= get_size(src)

BadArgument ==
    /\ CallOfOneIdentifier
    /\ Callee # <<>>
    /\ Len(Callee[1].parameter_types) > 0
    /\ NotOneSidedCompatible(find_scope_var(scope, Peek(Cur.p, 2).value)[1].primitive_type,
                             Callee[1].parameter_types[1])

C10_BadCallIsParserError ==
    [][((AtCall /\ Callee = <<>>) \/ BadArgument) =>
          /\ phase' = "panic"
          /\ ast' = <<>>
          /\ output' = <<>>
          /\ gstack' = <<>>
      ]_vars

\* the parser has panicked on a u64 argument for print8's u8 parameter
C10_Witness ==
    /\ ParserPanicked
    /\ err = "Incompatible types in function call"
    /\ output = <<>>
    /\ \E i \in 1..(Len(tokens) - 2) :
          /\ tokens[i].value = NamePrint8
          /\ tokens[i + 1].token_type = "LeftParen"
          /\ find_scope_var(scope, tokens[i + 2].value) # <<>>
          /\ find_scope_var(scope, tokens[i + 2].value)[1].primitive_type = "UInt64"

(***************************************************************************)
(* C2: in every BinaryOperation node parse_expression builds the two       *)
(* operands have the same width: of operands of different widths exactly   *)
(* the narrower one is wrapped in a Widen to the type of the wider one,    *)
(* and of operands of the same width neither is wrapped.                   *)
(***************************************************************************)
ResultNodes == IF result = <<>> THEN <<>> ELSE NodesOf(result[1])

\* the operand as parse_expression had it before the match on the widths
Unwrapped(operand) == IF operand.kind = "Widen" THEN operand.node ELSE operand

WidthOf(node) == get_size(get_primitive_type(node))

OperandsWidened(node) ==
    LET left == Unwrapped(node.left)
        right == Unwrapped(node.right)
    IN  /\ WidthOf(node.left) = WidthOf(node.right)
        /\ WidthOf(left) < WidthOf(right) =>
              /\ node.left = Widen(get_primitive_type(right), left)
              /\ node.right = right
        /\ WidthOf(left) > WidthOf(right) =>
              /\ node.right = Widen(get_primitive_type(left), right)
              /\ node.left = left
        /\ WidthOf(left) = WidthOf(right) =>
              /\ node.left = left
              /\ node.right = right

C2_OperandsHaveEqualWidth ==
    \A i \in 1..Len(ResultNodes) :
        ResultNodes[i].kind = "BinaryOperation" => OperandsWidened(ResultNodes[i])

\* parse_expression returned a tree with an operation whose narrower left
\* operand was widened and an operation on operands of one width
C2_Witness ==
    /\ phase = "returned"
    /\ \E i, k \in 1..Len(ResultNodes) :
          /\ ResultNodes[i].kind = "BinaryOperation"
          /\ ResultNodes[i].left.kind = "Widen"
          /\ ResultNodes[i].right.kind # "Widen"
          /\ WidthOf(ResultNodes[i].left.node) < WidthOf(ResultNodes[i].right)
          /\ ResultNodes[k].kind = "BinaryOperation"
          /\ ResultNodes[k].left.kind # "Widen"
          /\ ResultNodes[k].right.kind # "Widen"

(***************************************************************************)
(* C7: is_compatible_with is false whenever exactly one of the two types   *)
(* is Bool, for every other type (Void and Unknown too) and both values of *)
(* one_sided.                                                              *)
(***************************************************************************)
C7_BoolOnlyWithBool ==
    (/\ phase = "returned"
     /\ (call.self = "Bool") # (call.dest_type = "Bool")) => result = <<FALSE>>

(***************************************************************************)
(* C8: the literal L, 0 <= L <= 2^64 - 1, is parsed to a NumericLiteral of *)
(* type UInt8 if L <= 255, UInt16 if L <= 65535, UInt32 if L <= 2^32 - 1,  *)
(* and UInt64 otherwise.  L is read off the digits of the token, compared  *)
(* as decimal numerals.                                                    *)
(***************************************************************************)
RECURSIVE StripZeros(_)
StripZeros(digits) ==
    IF Len(digits) > 1 /\ Head(digits) = "0" THEN StripZeros(Tail(digits)) ELSE digits

RECURSIVE LexLeq(_, _)
LexLeq(a, b) ==
    IF Len(a) = 0 THEN TRUE
    ELSE IF DigitVal(Head(a)) # DigitVal(Head(b)) THEN DigitVal(Head(a)) < DigitVal(Head(b))
    ELSE LexLeq(Tail(a), Tail(b))

\* a <= b, of decimal numerals
DecLeq(a, b) ==
    LET x == StripZeros(a)
        y == StripZeros(b)
    IN  Len(x) < Len(y) \/ (Len(x) = Len(y) /\ LexLeq(x, y))

DecU8Max == <<"2", "5", "5">>

DecU16Max == <<"6", "5", "5", "3", "5">>

DecU32Max == <<"4", "2", "9", "4", "9", "6", "7", "2", "9", "5">>

DecU64Max ==
    <<"1", "8", "4", "4", "6", "7", "4", "4", "0", "7", "3", "7", "0", "9", "5", "5",
      "1", "6", "1", "5">>

TypeOfNumeral(digits) ==
    IF DecLeq(digits, DecU8Max) THEN "UInt8"
    ELSE IF DecLeq(digits, DecU16Max) THEN "UInt16"
    ELSE IF DecLeq(digits, DecU32Max) THEN "UInt32"
    ELSE "UInt64"

C8_LiteralTyping ==
    (phase # "call" /\ DecLeq(tokens[1].value, DecU64Max)) =>
        /\ phase = "returned"
        /\ result[1].kind = "NumericLiteral"
        /\ result[1].primitive_type = TypeOfNumeral(tokens[1].value)

\* 4294967296 was typed UInt64
C8_Witness ==
    /\ phase = "returned"
    /\ tokens[1].value = <<"4", "2", "9", "4", "9", "6", "7", "2", "9", "6">>
    /\ result[1].primitive_type = "UInt64"

(***************************************************************************)
(* C9: the i-th symbol added to a fresh Scope gets as offset the sum of    *)
(* the sizes in bytes of the first i types; the offsets are strictly       *)
(* increasing; types of 8, 32 and 64 bits get the offsets 1, 5 and 13.     *)
(***************************************************************************)
RECURSIVE BytesUpTo(_, _)
BytesUpTo(adds, i) ==
    IF i = 0 THEN 0 ELSE BytesUpTo(adds, i - 1) + get_size(adds[i].primitive_type) \div 8

C9_OffsetsCumulative ==
    /\ Len(result) = Len(call)
    /\ \A i \in 1..Len(result) :
          /\ result[i].offset = BytesUpTo(call, i)
          /\ i > 1 => result[i].offset > result[i - 1].offset
    /\ \A i \in 1..(Len(result) - 2) :
          (/\ i = 1
           /\ get_size(call[1].primitive_type) = 8
           /\ get_size(call[2].primitive_type) = 32
           /\ get_size(call[3].primitive_type) = 64)
          => <<result[1].offset, result[2].offset, result[3].offset>> = <<1, 5, 13>>

\* variables of 8, 32 and 64 bits were added, in this order
C9_Witness ==
    /\ Len(call) = 3
    /\ <<call[1].primitive_type, call[2].primitive_type, call[3].primitive_type>>
           = <<"UInt8", "UInt32", "UInt64">>
    /\ <<result[1].offset, result[2].offset, result[3].offset>> = <<1, 5, 13>>

(***************************************************************************)
(* C11: no partial output.  Whenever the compilation ends in a panic, of   *)
(* the parser or of the generator, no line has been written to the output. *)
(***************************************************************************)
C11_NoPartialOutput == phase = "panic" => output = <<>>

(***************************************************************************)
(* C12: the generation of a call with more than two arguments panics and   *)
(* writes no `call` line; the generation of a call with 0, 1 or 2          *)
(* arguments returns, its last line the one `call`, all registers free.    *)
(***************************************************************************)
CallLines == {i \in 1..Len(output) : output[i].op = "call"}

C12_AtMostTwoArguments ==
    phase # "call" =>
        IF Len(call.params) > 2
        THEN phase = "panic" /\ CallLines = {}
        ELSE /\ phase = "returned"
             /\ CallLines = {Len(output)}
             /\ output[Len(output)] = Line("call", <<<<"name", call.name>>>>)
             /\ AllRegistersFree

\* a call with three arguments has panicked, after the moves of the first two
C12_Witness ==
    /\ phase = "panic"
    /\ Len(call.params) = 3
    /\ Cardinality({i \in 1..Len(output) : output[i].op = "xor"}) = 2

(***************************************************************************)
(* C13: idempotence of generation.  The text a second call of gen writes   *)
(* for the same AstNode is the text the first call wrote, label numbers    *)
(* included, on a new generator and on the same generator alike.           *)
(***************************************************************************)
\* the lines the second call of gen wrote
SecondText ==
    IF call = <<"same">> THEN SubSeq(output, Len(result[1]) + 1, Len(output)) ELSE output

C13_GenerationIdempotent ==
    (phase = "done" /\ call # <<>>) => SecondText = result[1]

(***************************************************************************)
(* C14: labels.  The label counter never decreases and every If and every  *)
(* While takes exactly two numbers from it; no label is defined twice in   *)
(* the output, every label defined was taken from the counter, and in the  *)
(* finished output every jz and jmp has a target defined exactly once.     *)
(***************************************************************************)
LabelLines == {i \in 1..Len(output) : output[i].op = "label"}

JumpLines == {i \in 1..Len(output) : output[i].op \in {"jz", "jmp"}}

Constructs == {i \in 1..Len(AstNodes) : AstNodes[i].kind \in {"If", "While"}}

LabelsDefinedOnce ==
    /\ \A i, j \in LabelLines : output[i].args = output[j].args => i = j
    /\ \A i \in LabelLines : output[i].args[1][2] < label_index
    /\ phase = "done" =>
          /\ label_index = 2 * Cardinality(Constructs)
          /\ \A i \in JumpLines :
                Cardinality({j \in LabelLines : output[j].args = output[i].args}) = 1

TwoLabelsPerConstruct ==
    /\ label_index' >= label_index
    /\ ((AtNode("If") \/ AtNode("While")) /\ phase' = "generate") =>
           label_index' = label_index + 2

C14_LabelsWellFormed == [](LabelsDefinedOnce) /\ [][TwoLabelsPerConstruct]_vars

\* the generation of a program with two constructs or more has ended
C14_Witness ==
    /\ phase = "done"
    /\ label_index >= 4
    /\ Cardinality(LabelLines) >= 3
    /\ Cardinality(JumpLines) >= 4

(***************************************************************************)
(* C15: an If with an else branch and a comparison as condition.  The      *)
(* condition has type Bool, and the text written is, in this order: the    *)
(* code of the condition, a compare of the condition register with 0, the  *)
(* one jz, to the else label, the then-body, a jmp to the end label, the   *)
(* else label, the else-body, the end label; two labels are defined.       *)
(* The then-body of the programs stores the literal 1 once per statement,  *)
(* the else-body the literal 2.                                            *)
(***************************************************************************)
LinesOf(ops) == {i \in 1..Len(output) : output[i].op \in ops}

TheLine(op) == CHOOSE i \in LinesOf({op}) : TRUE

SetInstructions == {"sete", "setne", "setl", "setle", "setg", "setge"}

CmpInstructions == {CMP_INSTR[i] : i \in 1..NumSizes}

\* the literals moved to a register in the lines first..last, in order
RECURSIVE LiteralsIn(_, _)
LiteralsIn(first, last) ==
    IF first > last THEN <<>>
    ELSE (IF output[first].args # <<>> /\ output[first].args[1][1] = "imm64"
          THEN <<output[first].args[1][2]>> ELSE <<>>) \o LiteralsIn(first + 1, last)

StoresIn(first, last) ==
    {i \in first..last : Len(output[i].args) = 2 /\ output[i].args[2][1] = "mem"}

TheIf == ast[1].children[2]

IfElseTextInOrder ==
    LET jz == TheLine("jz")
        jmp == TheLine("jmp")
        else_label == output[jz].args
        end_label == output[jmp].args
        then_count == Len(TheIf.code.children)
        else_count == Len(TheIf.else_code[1].children)
    IN  /\ get_primitive_type(TheIf.condition) = "Bool"
        /\ Cardinality(LinesOf({"jz"})) = 1
        /\ Cardinality(LinesOf({"jmp"})) = 1
        /\ Cardinality(LinesOf({"label"})) = 2
        \* the condition, then the compare with 0 and the jump to the else label
        /\ jz > 4
        /\ Cardinality(LinesOf(SetInstructions)) = 1
        /\ \E s \in LinesOf(SetInstructions) :
              /\ s < jz - 1
              /\ output[s].args[1][3] = output[jz - 1].args[2][3]
        /\ output[jz - 1].op \in CmpInstructions
        /\ output[jz - 1].args[1] = <<"imm", 0>>
        /\ output[jz - 1].args[2][1] = "reg"
        \* the then-body, the jump over the else-body, the else label
        /\ jz < jmp
        /\ Cardinality(StoresIn(jz + 1, jmp - 1)) = then_count
        /\ LiteralsIn(jz + 1, jmp - 1) = [i \in 1..then_count |-> parse_u64(<<"1">>)[1]]
        /\ output[jmp + 1].op = "label"
        /\ output[jmp + 1].args = else_label
        \* the else-body and the end label
        /\ Cardinality(StoresIn(jmp + 2, Len(output) - 1)) = else_count
        /\ LiteralsIn(jmp + 2, Len(output) - 1) = [i \in 1..else_count |-> parse_u64(<<"2">>)[1]]
        /\ output[Len(output)].op = "label"
        /\ output[Len(output)].args = end_label
        /\ else_label # end_label

C15_IfElseEmission ==
    /\ phase # "panic"
    /\ phase = "done" => IfElseTextInOrder

\* the generation of `var x: u32; if (x == 0) { x = 1; } else { x = 2; }` has ended
C15_Witness ==
    /\ phase = "done"
    /\ tokens = SrcVar(X, <<"u", "3", "2">>)
                  \o SrcIfElse(<<TLParen, TId(X), TEqEq, TInt(<<"0">>), TRParen>>,
                               Repeated("1", 1), Repeated("2", 1))
    /\ Len(output) > 10

(***************************************************************************)
(* C16: on an input of valid tokens, spaces, tabs, newlines and `#`        *)
(* comments tokenize returns, and returns the tokens outside the comments  *)
(* in source order: the tokens of the input with every comment, from its   *)
(* `#` up to the newline, taken out.                                       *)
(***************************************************************************)
RECURSIVE WithoutComments(_, _)
WithoutComments(data, in_comment) ==
    IF Len(data) = 0 THEN <<>>
    ELSE IF in_comment
    THEN IF is_newline(Head(data)) THEN <<Head(data)>> \o WithoutComments(Tail(data), FALSE)
         ELSE WithoutComments(Tail(data), TRUE)
    ELSE IF Head(data) = "#" THEN WithoutComments(Tail(data), TRUE)
    ELSE <<Head(data)>> \o WithoutComments(Tail(data), FALSE)

C16_CommentsSkipped ==
    phase # "call" =>
        /\ phase = "returned"
        /\ result = <<tokenize(WithoutComments(call, FALSE)).tokens>>

(***************************************************************************)
(* C17: the tree parse_expression returns for a chain of operators groups  *)
(* `*` `/` tighter than `+` `-`, tighter than `<` `<=` `>` `>=`, tighter   *)
(* than `==` `!=`, and operators of one level to the left: the tree splits *)
(* the chain at the last of its loosest operators, and so do its subtrees. *)
(* a - b - c is (a - b) - c, and a + b * c + d is (a + (b * c)) + d.       *)
(***************************************************************************)
\* 4 the tightest level, 1 the loosest
Tightness(token_type) ==
    CASE token_type \in {"Star", "Slash"} -> 4
      [] token_type \in {"Plus", "Minus"} -> 3
      [] token_type \in {"LessThan", "LessThanOrEqual", "GreaterThan",
                         "GreaterThanOrEqual"} -> 2
      [] token_type \in {"DoubleEqualSign", "NotEqualSign"} -> 1

\* the grouping of the operands at tokens 2 * first - 1 .. 2 * last - 1 of source
RECURSIVE Grouping(_, _, _)
Grouping(source, first, last) ==
    IF first = last THEN source[2 * first - 1].value
    ELSE LET at == CHOOSE k \in first..(last - 1) :
                       /\ \A j \in first..(last - 1) :
                            Tightness(source[2 * k].token_type)
                                <= Tightness(source[2 * j].token_type)
                       /\ \A j \in (k + 1)..(last - 1) :
                            Tightness(source[2 * k].token_type)
                                < Tightness(source[2 * j].token_type)
         IN  <<source[2 * at].token_type,
               Grouping(source, first, at), Grouping(source, at + 1, last)>>

\* the operators and names of an expression tree, Widen nodes left out
RECURSIVE TreeShape(_)
TreeShape(node) ==
    CASE node.kind = "Widen" -> TreeShape(node.node)
      [] node.kind = "Identifier" -> node.symbol.name
      [] node.kind = "BinaryOperation" ->
           <<CHOOSE t \in OperatorTokens : token_type_to_operator(t) = node.op,
             TreeShape(node.left), TreeShape(node.right)>>

C17_PrecedenceAndAssociativity ==
    (phase = "returned" /\ Len(tokens) % 2 = 0 /\ tokens[1].token_type = "Identifier"
         /\ Len(tokens) <= 2 * Len(ShapeNames)) =>
        TreeShape(result[1]) = Grouping(tokens, 1, Len(tokens) \div 2)

\* a + b * c + d has been parsed as (a + (b * c)) + d
C17_Witness ==
    /\ phase = "returned"
    /\ tokens = ExprSource([k \in 1..4 |-> ShapeOperand(k)], <<TPlus, TStar, TPlus>>)
    /\ TreeShape(result[1])
         = <<"Plus", <<"Plus", <<"a">>, <<"Star", <<"b">>, <<"c">>>>>>, <<"d">>>>

(***************************************************************************)
(* C18: when parse_single is at an `if` or a `while` whose condition is a  *)
(* well-typed expression, a condition whose type is not Bool makes the     *)
(* parser fail, and a condition of type Bool is accepted: the parser goes  *)
(* on into the block.  As stated, the not-Bool conditions are an integer   *)
(* literal, an arithmetic expression and an identifier of a non-Bool       *)
(* variable, and the Bool ones a comparison and an identifier of a bool    *)
(* variable.                                                               *)
(***************************************************************************)
AtCondition == AtStatement /\ (NextIs("If") \/ NextIs("While"))

\* the tokens between the keyword and the `{` of the block
Condition ==
    LET brace == CHOOSE j \in (index + 2)..Len(tokens) :
                     /\ tokens[j].token_type = "LeftBrace"
                     /\ \A k \in (index + 2)..(j - 1) : tokens[k].token_type # "LeftBrace"
    IN  SubSeq(tokens, index + 2, brace - 1)

ConditionParsed == parse_expression(Consume(Cur.p), Zero)

ConditionType == get_primitive_type(ConditionParsed.node)

ComparisonTokens ==
    {"DoubleEqualSign", "NotEqualSign", "LessThan", "LessThanOrEqual", "GreaterThan",
     "GreaterThanOrEqual"}

ArithmeticTokens == {"Plus", "Minus", "Star", "Slash"}

TypesOf(types) == {k \in 1..Len(Condition) : Condition[k].token_type \in types}

IsIntLiteral == Len(Condition) = 1 /\ TypesOf({"IntLiteral"}) # {}

IsBoolIdentifier ==
    /\ Len(Condition) = 1
    /\ TypesOf({"Identifier"}) # {}
    /\ find_scope_var(scope, Condition[1].value)[1].primitive_type = "Bool"

IsNonBoolIdentifier ==
    /\ Len(Condition) = 1
    /\ TypesOf({"Identifier"}) # {}
    /\ find_scope_var(scope, Condition[1].value)[1].primitive_type # "Bool"

\* without parentheses: a comparison has a comparison operator, which binds loosest
IsComparison == TypesOf(ComparisonTokens) # {}

IsArithmetic == TypesOf(ComparisonTokens) = {} /\ TypesOf(ArithmeticTokens) # {}

\* an operand of the condition is a literal or a variable that is not a bool
HasNonBoolOperand ==
    \E k \in TypesOf({"IntLiteral", "Identifier"}) :
        \/ Condition[k].token_type = "IntLiteral"
        \/ find_scope_var(scope, Condition[k].value)[1].primitive_type # "Bool"

ConditionRejected ==
    /\ phase' = "panic"
    /\ err' \in {"If statement should contain a boolean expression",
                 "While statement condition should be a boolean expression"}

ConditionAccepted ==
    /\ phase' = "parse"
    /\ Len(pstack') > Len(pstack)
    /\ Top(pstack').kind = "block"

\* the statement as it is written: every arithmetic expression is rejected
C18_ConditionMustBeBool ==
    [][(AtCondition /\ ~Failed(ConditionParsed.p)) =>
          /\ (ConditionType # "Bool" \/ IsIntLiteral \/ IsArithmetic \/ IsNonBoolIdentifier)
                => ConditionRejected
          /\ (ConditionType = "Bool" \/ IsComparison \/ IsBoolIdentifier)
                => ConditionAccepted]_vars

\* amended: an arithmetic expression is rejected when one of its operands is not a
\* bool; over bool operands only it has type Bool and is accepted
C18_ConditionTypeMustBeBool ==
    [][(AtCondition /\ ~Failed(ConditionParsed.p)) =>
          /\ (\/ ConditionType # "Bool"
              \/ IsIntLiteral
              \/ IsArithmetic /\ HasNonBoolOperand
              \/ IsNonBoolIdentifier)
                => ConditionRejected
          /\ (\/ ConditionType = "Bool"
              \/ IsComparison
              \/ IsBoolIdentifier
              \/ IsArithmetic /\ ~HasNonBoolOperand)
                => ConditionAccepted]_vars

\* `while a + 1 { }` has been rejected
C18_Witness ==
    /\ phase = "panic"
    /\ err = "While statement condition should be a boolean expression"
    /\ \E k \in 1..Len(tokens) :
         /\ tokens[k] = TWhile
         /\ SubSeq(tokens, k + 1, k + 3) = <<TId(NameA), TPlus, TInt(<<"1">>)>>
         /\ index = k + 3

(***************************************************************************)
(* C19: every Widen node of the tree the parser returns has an unsigned    *)
(* type, and the generator never fails on                                  *)
(* assert!(primitive_type.is_unsigned()).                                  *)
(***************************************************************************)
C19_WidenTargetsUnsigned ==
    /\ \A i \in 1..Len(AstNodes) :
          AstNodes[i].kind = "Widen" => is_unsigned(AstNodes[i].primitive_type)
    /\ err # AssertWidenUnsigned

(***************************************************************************)
(* C20: `var x: u32; x = 3 + 4;` is lexed to its tokens, parsed and        *)
(* generated without a panic; when generation is done all registers are    *)
(* free and the emitted instructions, run in order, leave 7 in the frame   *)
(* slot of x.  The same with the sum of the literals for every program     *)
(* `var x: T; x = n + ... + n;` with T unsigned.                           *)
(***************************************************************************)
ScenarioAText ==
    <<"v", "a", "r", " ", "x", ":", " ", "u", "3", "2", ";", " ",
      "x", " ", "=", " ", "3", " ", "+", " ", "4", ";">>

ScenarioA == SrcVar(X, <<"u", "3", "2">>) \o SrcAssign(X, <<TInt(<<"3">>), TPlus, TInt(<<"4">>)>>)

\* the low 8 or 16 bits of v; the values of these programs stay below 2^31
LowBits(v, size_index) ==
    IF size_index = 0 THEN v % 256 ELSE IF size_index = 1 THEN v % 65536 ELSE v

\* the register after a write of v to its 8, 16, 32 or 64 bit name
WriteBits(old, v, size_index) ==
    IF size_index <= 1 THEN (old - LowBits(old, size_index)) + LowBits(v, size_index)
    ELSE v

\* the machine after one emitted line: the four registers and the frame slots
Execute(m, line) ==
    LET args == line.args IN
      CASE line.op = "movq" /\ args[1][1] = "imm64" ->
             [m EXCEPT !.reg[args[2][3] + 1] = args[1][2][1]]
        [] line.op \in {"addb", "addw", "addl", "addq"} ->
             [m EXCEPT !.reg[args[2][3] + 1] =
                 WriteBits(@, LowBits(@, args[2][2]) + LowBits(m.reg[args[1][3] + 1], args[1][2]),
                           args[2][2])]
        [] line.op = "movzx" ->
             [m EXCEPT !.reg[args[2][3] + 1] =
                 WriteBits(@, LowBits(m.reg[args[1][3] + 1], args[1][2]), args[2][2])]
        [] line.op \in {"movb", "movw", "movl"} /\ args[1][1] = "reg" /\ args[2][1] = "mem" ->
             [m EXCEPT !.slots = [o \in DOMAIN @ \cup {args[2][2]} |->
                                     IF o = args[2][2]
                                     THEN LowBits(m.reg[args[1][3] + 1], args[1][2])
                                     ELSE @[o]]]
        [] OTHER -> m

RECURSIVE Run(_, _, _)
Run(m, lines, k) == IF k > Len(lines) THEN m ELSE Run(Execute(m, lines[k]), lines, k + 1)

\* the frame slots after the emitted text has run
Slots == Run([reg |-> [r \in 1..NumRegisters |-> 0], slots |-> <<>>], output, 1).slots

LiteralSum ==
    LET RECURSIVE Sum(_)
        Sum(k) == IF k > Len(tokens) THEN 0
                  ELSE Sum(k + 1) + (IF tokens[k].token_type = "IntLiteral"
                                     THEN parse_u64(tokens[k].value)[1][1] ELSE 0)
    IN  Sum(1)

C20_ScenarioA ==
    /\ tokenize(ScenarioAText) = [tokens |-> ScenarioA, err |-> ""]
    /\ (tokens \in LiteralPrograms /\ is_unsigned(from_str(tokens[4].value)[1])) =>
          /\ phase # "panic"
          /\ phase = "done" =>
                /\ AllRegistersFree
                /\ LET x == ast[1].children[1].symbol
                   IN  /\ x.offset \in DOMAIN Slots
                       /\ Slots[x.offset] = LiteralSum
                /\ tokens = ScenarioA => Slots = (4 :> 7)

C20_Witness ==
    /\ tokens = ScenarioA
    /\ phase = "done"
    /\ Slots = (4 :> 7)
    /\ Len(output) = 8

(***************************************************************************)
(* C21: when parse_single is at an assignment `name = expr` and the token  *)
(* that follows the expression is not `;`, the parser fails: it does not   *)
(* consume that token and go on.                                           *)
(***************************************************************************)
AtAssignment ==
    /\ AtStatement
    /\ NextIs("Identifier")
    /\ PeekOk(Cur.p, 1)
    /\ Peek(Cur.p, 1).token_type = "EqualSign"

\* the first token after `name =` at which parse_expression stops
AssignmentEnd ==
    CHOOSE j \in (index + 3)..Len(tokens) :
        /\ tokens[j] \in Terminators
        /\ \A k \in (index + 3)..(j - 1) : tokens[k] \notin Terminators

C21_AssignmentEndsWithSemicolon ==
    [][(AtAssignment /\ tokens[AssignmentEnd] # TSemi) => phase' = "panic"]_vars

(***************************************************************************)
(* C22: in the text emitted for `a = o1 + o2 + ... + on` at most 2         *)
(* registers hold a value at once and generation succeeds; for             *)
(* `a = o1 + (o2 + (... + on))` with n <= 4 the n registers hold a value   *)
(* at once, and with n > 4 generation fails with "Out of registers!" and   *)
(* in no other case; no register is loaded while it holds a value.         *)
(***************************************************************************)
\* line k loads a value into a register: the slot in a set, or no slot
LoadedBy(k) ==
    LET line == output[k] IN
      IF Len(line.args) = 2 /\ line.args[1][1] \in {"mem", "imm64"} /\ line.args[2][1] = "reg"
      THEN {line.args[2][3]} ELSE {}

\* line k is the last use of a register: the source of an add or of the store
ReleasedBy(k) ==
    LET line == output[k] IN
      IF Len(line.args) = 2 /\ line.args[1][1] = "reg"
      THEN {line.args[1][3]} ELSE {}

\* the registers that hold a value after the first k lines
RECURSIVE LiveAfter(_)
LiveAfter(k) ==
    IF k = 0 THEN {} ELSE (LiveAfter(k - 1) \cup LoadedBy(k)) \ ReleasedBy(k)

PeakRegisters ==
    CHOOSE n \in 0..NumRegisters :
        /\ \A k \in 0..Len(output) : Cardinality(LiveAfter(k)) <= n
        /\ \E k \in 0..Len(output) : Cardinality(LiveAfter(k)) = n

LoadsIntoLive == {k \in 1..Len(output) : LoadedBy(k) \cap LiveAfter(k - 1) # {}}

ChainLength == Cardinality({k \in 8..Len(tokens) : tokens[k] \in ChainOperands})

IsRightNested == \E k \in 1..Len(tokens) : tokens[k] = TLParen

OutOfRegisters == phase = "panic" /\ err = "Out of registers!"

C22_RegisterPressure ==
    /\ LoadsIntoLive = {}
    /\ phase = "panic" => OutOfRegisters /\ IsRightNested /\ ChainLength > NumRegisters
    /\ phase = "done" =>
          /\ AllRegistersFree
          /\ ~IsRightNested => PeakRegisters = (IF ChainLength = 1 THEN 1 ELSE 2)
          /\ IsRightNested => PeakRegisters = ChainLength /\ ChainLength <= NumRegisters

\* a right-nested chain of more than 4 operands has run out of registers
C22_Witness ==
    /\ OutOfRegisters
    /\ IsRightNested
    /\ ChainLength = NumRegisters + 1
    /\ Cardinality(LiveAfter(Len(output))) = NumRegisters

(***************************************************************************)
(* C23: the scope stack of the parser is never empty; while parsing, its   *)
(* depth is 1 plus the number of blocks that are open, and each open block *)
(* was entered at the depth of the blocks around it, so a block leaves the *)
(* depth as it found it; after parse() has returned the depth is 1 and the *)
(* scope that remains still holds the six external functions.              *)
(***************************************************************************)
OpenBlocks == {k \in 1..Len(pstack) : pstack[k].kind = "block"}

ParseReturned == phase \in {"parsed", "generate", "done"} \/ (phase = "panic" /\ ast # <<>>)

C23_ScopeStackDiscipline ==
    /\ Len(scope) >= 1
    /\ phase = "parse" =>
          /\ Len(scope) = 1 + Cardinality(OpenBlocks)
          /\ Len(entry_scope) = Cardinality(OpenBlocks)
          /\ \A i \in 1..Len(entry_scope) : Len(entry_scope[i]) = i
    /\ ParseReturned =>
          /\ Len(scope) = 1
          /\ Cardinality(DOMAIN ParserNewScope[1].symbols) = 6
          /\ DOMAIN ParserNewScope[1].symbols \subseteq DOMAIN scope[1].symbols

\* parse() has returned a tree with a block nested in a block
C23_Witness ==
    /\ phase = "parsed"
    /\ Len(scope) = 1
    /\ \E i \in 2..Len(AstNodes) :
          /\ AstNodes[i].kind = "Block"
          /\ \E k \in 2..Len(NodesOf(AstNodes[i])) : NodesOf(AstNodes[i])[k].kind = "Block"

(***************************************************************************)
(* C24: the text of a call with arguments a1..an, n <= 2, is, for each i   *)
(* in order, the line that evaluates ai into a register of its own, the    *)
(* xor that zeroes the i-th parameter register, and the mov of that        *)
(* register into the i-th parameter register at the width of ai; the call  *)
(* is the last line, and every register is free when it has been written.  *)
(***************************************************************************)
ArgumentWidth(i) == size_to_instruction_index(get_size(get_primitive_type(call.params[i])))

C24_CallEmissionOrder ==
    phase = "returned" =>
        LET n == Len(call.params) IN
          /\ n <= NumParamRegisters
          /\ Len(output) = 3 * n + 1
          /\ \A i \in 1..n :
                /\ output[3 * i - 2].op \in {"movb", "movw", "movl", "movq"}
                /\ output[3 * i - 2].args[1][1] \in {"mem", "imm64"}
                /\ output[3 * i - 2].args[2][1] = "reg"
                /\ output[3 * i - 2].args[2][3] = i - 1
                /\ output[3 * i - 1]
                     = Line("xor", <<<<"param", 3, i - 1>>, <<"param", 3, i - 1>>>>)
                /\ output[3 * i]
                     = Line(MOV_INSTR[ArgumentWidth(i) + 1],
                            <<<<"reg", ArgumentWidth(i), i - 1>>,
                              <<"param", ArgumentWidth(i), i - 1>>>>)
          /\ output[3 * n + 1] = Line("call", <<<<"name", call.name>>>>)
          /\ AllRegistersFree

\* a call with two arguments of different widths has been generated
C24_Witness ==
    /\ phase = "returned"
    /\ Len(call.params) = 2
    /\ ArgumentWidth(1) # ArgumentWidth(2)
    /\ Len(output) = 7
    /\ output[7].op = "call"

(***************************************************************************)
(* C25: in every Assignment node of the tree the parser returns, the type  *)
(* of the expression is one-sided compatible with the type of the          *)
(* variable, and gen_assignment never fails on its compatibility check.    *)
(***************************************************************************)
C25_AssignmentsCompatible ==
    /\ \A i \in 1..Len(AstNodes) :
          AstNodes[i].kind = "Assignment" =>
              is_compatible_with(get_primitive_type(AstNodes[i].expression),
                                 AstNodes[i].symbol.primitive_type, TRUE)
    /\ err # "Incompatible types in assignment"

(***************************************************************************)
(* C26: two distinct Variables of the scopes that are open at the same     *)
(* time occupy disjoint byte ranges [offset - size / 8, offset) of the     *)
(* frame.                                                                  *)
(***************************************************************************)
\* <<depth, name>> of the Variables of the open scopes
OpenVariables ==
    {v \in UNION {{<<k, name>> : name \in DOMAIN scope[k].symbols} : k \in 1..Len(scope)} :
        scope[v[1]].symbols[v[2]].symbol_type = "Variable"}

SlotOf(v) ==
    LET symbol == scope[v[1]].symbols[v[2]]
    IN  [first |-> symbol.offset - get_size(symbol.primitive_type) \div 8,
         end |-> symbol.offset]

C26_FrameSlotsDisjoint ==
    \A v \in OpenVariables : \A w \in OpenVariables :
        v # w => (SlotOf(v).end <= SlotOf(w).first \/ SlotOf(w).end <= SlotOf(v).first)

(***************************************************************************)
(* C27: outside every function declaration (before it, and after it has    *)
(* been parsed) no open scope binds a name to a function parameter, and    *)
(* the frame-offset counter of each open scope is the offset of the last   *)
(* Variable declared in it: the parameters have not moved it.              *)
(***************************************************************************)
InsideFunction == \E k \in 1..Len(pstack) : pstack[k].kind = "function"

VariableOffsets(k) ==
    {scope[k].symbols[name].offset :
        name \in {n \in DOMAIN scope[k].symbols :
                     scope[k].symbols[n].symbol_type = "Variable"}}

C27_ParametersAreLocal ==
    ((phase = "parse" /\ ~InsideFunction) \/ ParseReturned) =>
        \A k \in 1..Len(scope) :
            /\ \A name \in DOMAIN scope[k].symbols :
                  scope[k].symbols[name].symbol_type # "FunctionParameter"
            /\ \A o \in VariableOffsets(k) : o <= scope[k].last_offset
            /\ scope[k].last_offset \in VariableOffsets(k) \cup {0}

(***************************************************************************)
(* C28: when parse_single is at a call whose number of arguments differs   *)
(* from the number of parameter types of the callee, the parser fails.     *)
(***************************************************************************)
\* the arguments of the call at the parser's position: the operands up to its `)`
CallArguments ==
    LET close == CHOOSE j \in (index + 3)..Len(tokens) :
                     /\ tokens[j] = TRParen
                     /\ \A k \in (index + 3)..(j - 1) : tokens[k] # TRParen
    IN  {k \in (index + 3)..(close - 1) : tokens[k].token_type \in {"Identifier", "IntLiteral"}}

C28_CallArityChecked ==
    [][(AtCall /\ Cardinality(CallArguments) # Len(Callee[1].parameter_types))
          => phase' = "panic"]_vars

(***************************************************************************)
(* C29: in the text of a call inside a function body, no line reads a      *)
(* parameter register that an earlier line of the call has written: an     *)
(* argument that names a parameter of the function is evaluated from the   *)
(* value the function was called with.                                     *)
(***************************************************************************)
\* line j writes the parameter register n: the xor or the mov of an argument
WritesParameter(j, n) ==
    /\ Len(output[j].args) = 2
    /\ output[j].args[2][1] = "param"
    /\ output[j].args[2][3] = n

\* line k loads the parameter register n into a scratch register
ReadsParameter(k, n) ==
    /\ Len(output[k].args) = 2
    /\ output[k].args[1][1] = "param"
    /\ output[k].args[1][3] = n
    /\ output[k].args[2][1] = "reg"

\* the lines from the first line of the call's arguments to its `call`
CallTextEnd(j) ==
    CHOOSE c \in j..(Len(output) + 1) :
        /\ c = Len(output) + 1 \/ output[c].op = "call"
        /\ \A k \in j..(c - 1) : output[k].op # "call"

C29_ParametersReadBeforeOverwritten ==
    \A j \in 1..Len(output) : \A n \in 0..(NumParamRegisters - 1) :
        WritesParameter(j, n) =>
            \A k \in (j + 1)..(CallTextEnd(j) - 1) : ~ReadsParameter(k, n)

(***************************************************************************)
(* C30: run in order, the lines emitted for n < m, n <= m, n > m and       *)
(* n >= m over unsigned literals leave 1 in the result register when the   *)
(* relation holds between n and m as unsigned integers and 0 when it does  *)
(* not, n being the left side of the relation.                             *)
(***************************************************************************)
\* v read as a two's complement number of 8 or 16 bits
AsSigned(v, size_index) ==
    LET half == IF size_index = 0 THEN 128 ELSE 32768
    IN  IF v >= half THEN v - 2 * half ELSE v

\* the condition a set instruction tests after `cmp right, left`
ConditionHolds(op, left, right, size_index) ==
    LET l == AsSigned(left, size_index)
        r == AsSigned(right, size_index)
    IN  CASE op = "setl" -> l < r
          [] op = "setle" -> l <= r
          [] op = "setg" -> l > r
          [] op = "setge" -> l >= r
          [] op = "sete" -> l = r
          [] op = "setne" -> l # r

\* the machine after one line of a comparison: cmp keeps its operands for the set
ExecuteCompare(m, line) ==
    LET args == line.args IN
      CASE line.op \in {"cmpb", "cmpw"} /\ args[1][1] = "reg" ->
             [m EXCEPT !.left = LowBits(m.reg[args[2][3] + 1], args[2][2]),
                       !.right = LowBits(m.reg[args[1][3] + 1], args[1][2]),
                       !.size_index = args[1][2]]
        [] line.op \in {"setl", "setle", "setg", "setge", "sete", "setne"} ->
             [m EXCEPT !.reg[args[1][3] + 1] =
                 WriteBits(@, IF ConditionHolds(line.op, m.left, m.right, m.size_index)
                              THEN 1 ELSE 0, 0)]
        [] line.op \in {"andb", "andw"} ->
             [m EXCEPT !.reg[args[2][3] + 1] =
                 WriteBits(@, LowBits(@, args[2][2]) % (args[1][2] + 1), args[2][2])]
        [] OTHER -> Execute(m, line)

RECURSIVE RunCompare(_, _, _)
RunCompare(m, k, last) ==
    IF k > last THEN m ELSE RunCompare(ExecuteCompare(m, output[k]), k + 1, last)

\* the line that ends the first comparison: its `and $255, result`
FirstAnd ==
    CHOOSE k \in 1..Len(output) :
        /\ output[k].op \in {"andb", "andw"}
        /\ \A j \in 1..(k - 1) : output[j].op \notin {"andb", "andw"}

\* the value of the result register, at the width of the comparison
ComparisonResult ==
    LET m == RunCompare([reg |-> [r \in 1..NumRegisters |-> 0], slots |-> <<>>,
                         left |-> 0, right |-> 0, size_index |-> 0], 1, FirstAnd)
        result_reg == output[FirstAnd].args[2]
    IN  LowBits(m.reg[result_reg[3] + 1], result_reg[2])

LiteralValue(k) == parse_u64(tokens[k].value)[1][1]

UnsignedRelation ==
    CASE tokens[3].token_type = "LessThan" -> LiteralValue(2) < LiteralValue(4)
      [] tokens[3].token_type = "LessThanOrEqual" -> LiteralValue(2) <= LiteralValue(4)
      [] tokens[3].token_type = "GreaterThan" -> LiteralValue(2) > LiteralValue(4)
      [] tokens[3].token_type = "GreaterThanOrEqual" -> LiteralValue(2) >= LiteralValue(4)

C30_UnsignedComparison ==
    phase = "done" => ComparisonResult = (IF UnsignedRelation THEN 1 ELSE 0)

====
